---- MODULE Spec2Model ----
(***************************************************************************)
(* ProjectStrataML: the workspace indexer (tools/index.py) and the         *)
(* repository doctor (tools/doctor.py).                                    *)
(*                                                                         *)
(* The workspace is a directory tree; WorkspaceIndexer scans datasets/,    *)
(* runs/ and models/ into self.index and derives the lineage mapping.      *)
(* Python values are tagged records, file-system nodes are tagged records, *)
(* a raised exception is the "exc" field of an operation's outcome.        *)
(***************************************************************************)
EXTENDS Integers, Sequences, FiniteSets, TLC

VARIABLES
    disk,       \* the workspace tree under project_root
    index,      \* WorkspaceIndexer.index of the indexer in use
    last,       \* the last event: the call made (or "edit") and the exception it raised
    stamp,      \* datetime.now() as last read by a constructor
    prev,       \* what the index_all before the latest returned, nothing but a constructor between
    cur,        \* what the latest index_all returned, nothing but constructors since
    edits,      \* number of changes made to the tree so far
    calls,      \* number of indexer calls made so far
    loaded,     \* the last direct call of a loader: format, node, outcome
    dumped,     \* the last json.dumps of the index by the index command, and its parse
    repo,       \* the tree under the doctor's project_root, and what git lfs answers
    doctor,     \* RepositoryDoctor: strict, errors, warnings, validation_results
    outcome,    \* the last doctor invocation: target, rules run, result, exit code
    runners     \* the invocations of ExperimentRunner.run_experiment, each at its step

vars ==
    <<disk, index, last, stamp, prev, cur, edits, calls, loaded, dumped, repo, doctor, outcome,
      runners>>

(***************************************************************************)
(* Bounds of the exploration.                                              *)
(***************************************************************************)
MaxEdits == 1       \* changes made to the tree
MaxCalls == 2       \* calls of the indexer's methods
MaxStamp == 1       \* readings of the clock: 0 .. MaxStamp
MaxEntries == 2     \* entries of a split directory

(***************************************************************************)
(* Python values.                                                          *)
(***************************************************************************)
PyNone == [t |-> "null"]
PyStr(s) == [t |-> "str", s |-> s]
PyInt(n) == [t |-> "int", n |-> n]
PyList(xs) == [t |-> "list", xs |-> xs]
PyDict(f) == [t |-> "map", m |-> f]
PyDate(y, mo, d) == [t |-> "date", y |-> y, mo |-> mo, d |-> d]   \* datetime.date
PyIntKeyed(f) == [t |-> "imap", m |-> f]                          \* a dict whose keys are ints
EmptyFn == [k \in {} |-> PyNone]
EmptyDict == PyDict(EmptyFn)
EmptyStr == PyStr("")

\* bool(v): the truth value Python gives a value
Truthy(v) ==
    CASE v.t = "null" -> FALSE
      [] v.t = "str" -> v.s # ""
      [] v.t = "int" -> v.n # 0
      [] v.t = "list" -> v.xs # << >>
      [] v.t = "map" -> DOMAIN v.m # {}
      [] v.t = "imap" -> DOMAIN v.m # {}
      [] v.t = "date" -> TRUE

\* a or b
Or(a, b) == IF Truthy(a) THEN a ELSE b

\* d.get(key, default) on a value d; raises AttributeError when d has no .get
Ok(v) == [exc |-> "none", val |-> v]
Raise(e) == [exc |-> e, val |-> PyNone]
Get(d, key, default) ==
    IF d.t \notin {"map", "imap"} THEN Raise("AttributeError")
    ELSE IF d.t = "map" /\ key \in DOMAIN d.m THEN Ok(d.m[key]) ELSE Ok(default)

\* the keys of the documents, in the order the documents list them
KeyOrder ==
    <<"name", "version", "run_id", "dataset", "model", "experiment",
      "derived_from", "source", "accuracy">>

DigitText == <<"0", "1", "2", "3", "4", "5", "6", "7", "8", "9">>
RECURSIVE NatText(_)
NatText(n) ==
    IF n < 10 THEN DigitText[n + 1] ELSE NatText(n \div 10) \o DigitText[(n % 10) + 1]
IntText(n) == IF n < 0 THEN "-" \o NatText(0 - n) ELSE NatText(n)
\* "%02d"
Pad2(n) == IF n < 10 THEN "0" \o NatText(n) ELSE NatText(n)
\* date.isoformat()
isoformat(v) == NatText(v.y) \o "-" \o Pad2(v.mo) \o "-" \o Pad2(v.d)
\* the int keys of a dict, in the order the document lists them
IntKeyOrder == <<0, 1, 2>>

\* repr(v) and str(v); an f-string field "{v}" is str(v)
RECURSIVE Repr(_)
RECURSIVE ReprItems(_, _)
RECURSIVE ReprPairs(_, _, _)
RECURSIVE ReprIntPairs(_, _, _)
ReprItems(xs, first) ==
    IF xs = << >> THEN ""
    ELSE (IF first THEN "" ELSE ", ") \o Repr(Head(xs)) \o ReprItems(Tail(xs), FALSE)
ReprPairs(m, ks, first) ==
    IF ks = << >> THEN ""
    ELSE IF Head(ks) \notin DOMAIN m THEN ReprPairs(m, Tail(ks), first)
    ELSE (IF first THEN "" ELSE ", ") \o "'" \o Head(ks) \o "': " \o Repr(m[Head(ks)])
         \o ReprPairs(m, Tail(ks), FALSE)
ReprIntPairs(m, ks, first) ==
    IF ks = << >> THEN ""
    ELSE IF Head(ks) \notin DOMAIN m THEN ReprIntPairs(m, Tail(ks), first)
    ELSE (IF first THEN "" ELSE ", ") \o IntText(Head(ks)) \o ": " \o Repr(m[Head(ks)])
         \o ReprIntPairs(m, Tail(ks), FALSE)
Repr(v) ==
    CASE v.t = "null" -> "None"
      [] v.t = "str" -> "'" \o v.s \o "'"
      [] v.t = "int" -> IntText(v.n)
      [] v.t = "list" -> "[" \o ReprItems(v.xs, TRUE) \o "]"
      [] v.t = "map" -> "{" \o ReprPairs(v.m, KeyOrder, TRUE) \o "}"
      [] v.t = "imap" -> "{" \o ReprIntPairs(v.m, IntKeyOrder, TRUE) \o "}"
      [] v.t = "date" ->
            "datetime.date(" \o NatText(v.y) \o ", " \o NatText(v.mo) \o ", "
            \o NatText(v.d) \o ")"
Format(v) ==
    CASE v.t = "str" -> v.s
      [] v.t = "date" -> isoformat(v)
      [] OTHER -> Repr(v)

(***************************************************************************)
(* File-system nodes and file contents.                                    *)
(***************************************************************************)
Absent == [t |-> "absent"]
Dir(e) == [t |-> "dir", e |-> e]
File(c) == [t |-> "file", c |-> c]
EmptyDir == Dir([k \in {} |-> Absent])

Doc(v) == [k |-> "doc", v |-> v]        \* text that is a well-formed document denoting v
Garbled == [k |-> "garbled"]            \* text that is not well-formed in the format
Blank == [k |-> "blank"]                \* a file of no characters
Binary == [k |-> "binary"]              \* bytes that are no text in the locale's encoding
Text(s) == [k |-> "text", s |-> s]      \* free text (a log, a model card)
Blob(n) == [k |-> "blob", size |-> n]   \* a binary artifact of n bytes

exists(n) == n.t # "absent"
is_dir(n) == n.t = "dir"
is_file(n) == n.t = "file"
Child(n, name) == IF n.t = "dir" /\ name \in DOMAIN n.e THEN n.e[name] ELSE Absent

\* open(path, "r"): a directory cannot be opened
Open(n) ==
    CASE n.t = "absent" -> Raise("FileNotFoundError")
      [] n.t = "dir" -> Raise("IsADirectoryError")
      [] n.t = "file" -> Ok(PyNone)

\* f.read() of a text-mode file
Read(n) == IF n.c.k \in {"binary", "blob"} THEN Raise("UnicodeDecodeError") ELSE Ok(PyNone)

\* yaml.safe_load(f)
yaml_safe_load(n) ==
    IF Read(n).exc # "none" THEN Read(n)
    ELSE CASE n.c.k = "doc" -> Ok(n.c.v)
           [] n.c.k = "blank" -> Ok(PyNone)
           [] n.c.k = "text" -> Ok(PyStr(n.c.s))
           [] OTHER -> Raise("YAMLError")

\* json.load(f)
json_load(n) ==
    IF Read(n).exc # "none" THEN Read(n)
    ELSE CASE n.c.k = "doc" -> Ok(n.c.v)
           [] OTHER -> Raise("JSONDecodeError")

\* try: ... except <caught>: return {}
Except(out, caught) == IF out.exc \in caught THEN Ok(EmptyDict) ELSE out

YamlCaught == {"YAMLError"}
JsonCaught == {"JSONDecodeError", "FileNotFoundError"}

_load_yaml_file(n) ==
    Except(
        IF exists(n)
        THEN IF Open(n).exc # "none" THEN Open(n)
             ELSE IF yaml_safe_load(n).exc # "none" THEN yaml_safe_load(n)
             ELSE Ok(Or(yaml_safe_load(n).val, EmptyDict))
        ELSE Ok(EmptyDict),
        YamlCaught)

_load_json_file(n) ==
    Except(
        IF exists(n)
        THEN IF Open(n).exc # "none" THEN Open(n) ELSE json_load(n)
        ELSE Ok(EmptyDict),
        JsonCaught)

(***************************************************************************)
(* Paths and directory listings.                                           *)
(***************************************************************************)
\* every entry name of the modelled workspaces, in one base order
NameOrder ==
    <<"README.md", "a", "b", "m", "run-1", "run-2", "tmp", "old", "v1", "v2", "v3",
      "metadata.yaml", "metrics.yaml", "card.md", "config.yaml", "metrics.json",
      "system.json", "log.txt", "train", "val", "test",
      "w.pt", "w.onnx", "notes.txt", "f1", "f2", "f3", "f4",
      "run-3", "run-4", "run-5", "1.0", "raw.csv", "base.yaml", "system.yaml",
      "configs", "data", "datasets", "docs", "environments", "experiments", "models",
      "runs", "scripts", "src", "spaces", "tools", "training", "sweeps",
      ".gitignore", ".gitattributes", ".lfsconfig", "requirements.txt",
      "requirements-dev.txt", "requirements-gpu.txt">>

RECURSIVE Reverse(_)
Reverse(s) == IF s = << >> THEN << >> ELSE Append(Reverse(Tail(s)), Head(s))

\* the order in which a directory listing returns its entries is not specified:
\* a listing is the base order or its reverse, as the flag of the call says
Orders == [top : BOOLEAN, sub : BOOLEAN]
Listing(n, rev) ==
    LET s == SelectSeq(NameOrder, LAMBDA x : x \in DOMAIN n.e)
    IN  IF rev THEN Reverse(s) ELSE s

\* path.iterdir(): only a directory can be listed
iterdir(n, rev) ==
    CASE n.t = "absent" -> Raise("FileNotFoundError")
      [] n.t = "file" -> Raise("NotADirectoryError")
      [] n.t = "dir" -> [exc |-> "none", val |-> Listing(n, rev)]

startswith(s, p) == Len(s) >= Len(p) /\ SubSeq(s, 1, Len(p)) = p

\* Path.suffix: the final component from its last dot on, "" when there is none
RECURSIVE LastDot(_, _)
LastDot(s, i) ==
    IF i <= 1 THEN 0 ELSE IF SubSeq(s, i, i) = "." THEN i ELSE LastDot(s, i - 1)
suffix(s) ==
    LET i == LastDot(s, Len(s))
    IN  IF i = 0 \/ i = Len(s) THEN "" ELSE SubSeq(s, i, Len(s))

\* s[:n]
Prefix(s, n) == SubSeq(s, 1, IF Len(s) < n THEN Len(s) ELSE n)

\* stat().st_size
st_size(n) ==
    CASE n.c.k = "blob" -> n.c.size
      [] n.c.k = "text" -> Len(n.c.s)
      [] n.c.k = "blank" -> 0
      [] OTHER -> 1

Put(f, k, v) == [x \in DOMAIN f \cup {k} |-> IF x = k THEN v ELSE f[x]]

(***************************************************************************)
(* WorkspaceIndexer.  A scan threads st = [index, exc]: the index as       *)
(* mutated so far and the exception that ended the scan ("none": none).    *)
(***************************************************************************)
LogPreviewLen == 500
CardPreviewLen == 1000
SplitNames == <<"train", "val", "test">>
ModelSuffixes == {".pth", ".pt", ".pkl", ".onnx", ".pb", ".h5", ".keras", ".ckpt"}

\* __init__: the index of a new indexer, constructed at time now
NewIndex(now) ==
    [datasets |-> EmptyFn, runs |-> EmptyFn, models |-> EmptyFn, lineage |-> EmptyFn,
     metadata |-> [indexed_at |-> now, project_root |-> "."]]

\* the loop over ["train", "val", "test"] of index_datasets
RECURSIVE CountSplits(_, _, _, _)
CountSplits(vdir, splits, counts, rev) ==
    IF splits = << >> THEN Ok(counts)
    ELSE LET p == Child(vdir, Head(splits))
         IN  IF exists(p)
             THEN IF iterdir(p, rev).exc # "none" THEN Raise(iterdir(p, rev).exc)
                  ELSE CountSplits(vdir, Tail(splits),
                                   Put(counts, Head(splits), Len(iterdir(p, rev).val)), rev)
             ELSE CountSplits(vdir, Tail(splits), counts, rev)

\* the loop over dataset_name.iterdir() of index_datasets
RECURSIVE ScanDatasetVersions(_, _, _, _, _)
ScanDatasetVersions(st, name, ddir, vs, ord) ==
    IF vs = << >> \/ st.exc # "none" THEN st
    ELSE LET v == Head(vs)
             vdir == ddir.e[v]
             md == _load_yaml_file(Child(vdir, "metadata.yaml"))
             sc == CountSplits(vdir, SplitNames, EmptyFn, ord.sub)
         IN  IF is_dir(vdir) /\ startswith(v, "v")
             THEN IF md.exc # "none" THEN [st EXCEPT !.exc = md.exc]
                  ELSE IF sc.exc # "none" THEN [st EXCEPT !.exc = sc.exc]
                  ELSE ScanDatasetVersions(
                           [st EXCEPT !.index.datasets[name] =
                               Put(@, v, [metadata |-> md.val,
                                          sample_counts |-> sc.val,
                                          path |-> "datasets/" \o name \o "/" \o v])],
                           name, ddir, Tail(vs), ord)
             ELSE ScanDatasetVersions(st, name, ddir, Tail(vs), ord)

\* ScanDatasets with the assignment to the dataset's key replacing the mapping
RECURSIVE ScanDatasets_replacing(_, _, _, _)
ScanDatasets_replacing(st, root, names, ord) ==
    IF names = << >> \/ st.exc # "none" THEN st
    ELSE LET n == Head(names)
             dn == root.e[n]
         IN  IF is_dir(dn) /\ n # "README.md"
             THEN ScanDatasets_replacing(
                      ScanDatasetVersions(
                          [st EXCEPT !.index.datasets = (n :> EmptyFn)],
                          n, dn, Listing(dn, ord.sub), ord),
                      root, Tail(names), ord)
             ELSE ScanDatasets_replacing(st, root, Tail(names), ord)

\* the loop over datasets_path.iterdir() of index_datasets
RECURSIVE ScanDatasets(_, _, _, _)
ScanDatasets(st, root, names, ord) ==
    IF names = << >> \/ st.exc # "none" THEN st
    ELSE LET n == Head(names)
             dn == root.e[n]
         IN  IF is_dir(dn) /\ n # "README.md"
             THEN ScanDatasets(
                      ScanDatasetVersions(
                          [st EXCEPT !.index.datasets = Put(@, n, EmptyFn)],
                          n, dn, Listing(dn, ord.sub), ord),
                      root, Tail(names), ord)
             ELSE ScanDatasets(st, root, Tail(names), ord)

index_datasets(idx, d, ord) ==
    IF ~exists(d.datasets) THEN [index |-> idx, exc |-> "none"]
    ELSE IF iterdir(d.datasets, ord.top).exc # "none"
         THEN [index |-> idx, exc |-> iterdir(d.datasets, ord.top).exc]
    ELSE ScanDatasets([index |-> idx, exc |-> "none"], d.datasets,
                      iterdir(d.datasets, ord.top).val, ord)

\* "if f.exists(): try: open(f).read()[:limit] except Exception: pass", from ""
Preview(n, limit) ==
    IF exists(n) /\ Open(n).exc = "none" /\ Read(n).exc = "none"
    THEN CASE n.c.k = "text" -> Prefix(n.c.s, limit)
           [] n.c.k = "blank" -> ""
    ELSE ""

\* ScanRuns with the assignment to the run's key replacing the mapping
RECURSIVE ScanRuns_replacing(_, _, _)
ScanRuns_replacing(st, root, names) ==
    IF names = << >> \/ st.exc # "none" THEN st
    ELSE LET n == Head(names)
             rd == root.e[n]
             config == _load_yaml_file(Child(rd, "config.yaml"))
             metrics == _load_json_file(Child(rd, "metrics.json"))
             system == _load_json_file(Child(rd, "system.json"))
         IN  IF is_dir(rd) /\ startswith(n, "run-")
             THEN IF config.exc # "none" THEN [st EXCEPT !.exc = config.exc]
                  ELSE IF metrics.exc # "none" THEN [st EXCEPT !.exc = metrics.exc]
                  ELSE IF system.exc # "none" THEN [st EXCEPT !.exc = system.exc]
                  ELSE ScanRuns_replacing(
                           [st EXCEPT !.index.runs =
                               (n :> [config |-> config.val,
                                      metrics |-> metrics.val,
                                      system |-> system.val,
                                      log_preview |-> Preview(Child(rd, "log.txt"),
                                                              LogPreviewLen),
                                      path |-> "runs/" \o n])],
                           root, Tail(names))
             ELSE ScanRuns_replacing(st, root, Tail(names))

\* the loop over runs_path.iterdir() of index_runs
RECURSIVE ScanRuns(_, _, _)
ScanRuns(st, root, names) ==
    IF names = << >> \/ st.exc # "none" THEN st
    ELSE LET n == Head(names)
             rd == root.e[n]
             config == _load_yaml_file(Child(rd, "config.yaml"))
             metrics == _load_json_file(Child(rd, "metrics.json"))
             system == _load_json_file(Child(rd, "system.json"))
         IN  IF is_dir(rd) /\ startswith(n, "run-")
             THEN IF config.exc # "none" THEN [st EXCEPT !.exc = config.exc]
                  ELSE IF metrics.exc # "none" THEN [st EXCEPT !.exc = metrics.exc]
                  ELSE IF system.exc # "none" THEN [st EXCEPT !.exc = system.exc]
                  ELSE ScanRuns(
                           [st EXCEPT !.index.runs =
                               Put(@, n, [config |-> config.val,
                                          metrics |-> metrics.val,
                                          system |-> system.val,
                                          log_preview |-> Preview(Child(rd, "log.txt"),
                                                                  LogPreviewLen),
                                          path |-> "runs/" \o n])],
                           root, Tail(names))
             ELSE ScanRuns(st, root, Tail(names))

index_runs(idx, d, ord) ==
    IF ~exists(d.runs) THEN [index |-> idx, exc |-> "none"]
    ELSE IF iterdir(d.runs, ord.top).exc # "none"
         THEN [index |-> idx, exc |-> iterdir(d.runs, ord.top).exc]
    ELSE ScanRuns([index |-> idx, exc |-> "none"], d.runs, iterdir(d.runs, ord.top).val)

\* the loop over version_dir.iterdir() of index_models that collects model files
RECURSIVE ModelFiles(_, _, _, _)
ModelFiles(vdir, names, where, found) ==
    IF names = << >> THEN found
    ELSE LET n == Head(names)
             f == vdir.e[n]
         IN  IF is_file(f) /\ suffix(n) \in ModelSuffixes
             THEN ModelFiles(vdir, Tail(names), where,
                             Append(found, [name |-> n, size |-> st_size(f),
                                            path |-> where \o "/" \o n]))
             ELSE ModelFiles(vdir, Tail(names), where, found)

\* the loop over model_name.iterdir() of index_models
RECURSIVE ScanModelVersions(_, _, _, _, _)
ScanModelVersions(st, name, mdir, vs, ord) ==
    IF vs = << >> \/ st.exc # "none" THEN st
    ELSE LET v == Head(vs)
             vdir == mdir.e[v]
             where == "models/" \o name \o "/" \o v
             metadata == _load_yaml_file(Child(vdir, "metadata.yaml"))
             metrics == _load_yaml_file(Child(vdir, "metrics.yaml"))
         IN  IF is_dir(vdir) /\ startswith(v, "v")
             THEN IF metadata.exc # "none" THEN [st EXCEPT !.exc = metadata.exc]
                  ELSE IF metrics.exc # "none" THEN [st EXCEPT !.exc = metrics.exc]
                  ELSE ScanModelVersions(
                           [st EXCEPT !.index.models[name] =
                               Put(@, v, [metadata |-> metadata.val,
                                          metrics |-> metrics.val,
                                          card_preview |-> Preview(Child(vdir, "card.md"),
                                                                   CardPreviewLen),
                                          model_files |-> ModelFiles(vdir,
                                                              Listing(vdir, ord.sub),
                                                              where, << >>),
                                          path |-> where])],
                           name, mdir, Tail(vs), ord)
             ELSE ScanModelVersions(st, name, mdir, Tail(vs), ord)

\* the loop over models_path.iterdir() of index_models
RECURSIVE ScanModels(_, _, _, _)
ScanModels(st, root, names, ord) ==
    IF names = << >> \/ st.exc # "none" THEN st
    ELSE LET n == Head(names)
             mn == root.e[n]
         IN  IF is_dir(mn) /\ n # "README.md"
             THEN ScanModels(
                      ScanModelVersions(
                          [st EXCEPT !.index.models = Put(@, n, EmptyFn)],
                          n, mn, Listing(mn, ord.sub), ord),
                      root, Tail(names), ord)
             ELSE ScanModels(st, root, Tail(names), ord)

index_models(idx, d, ord) ==
    IF ~exists(d.models) THEN [index |-> idx, exc |-> "none"]
    ELSE IF iterdir(d.models, ord.top).exc # "none"
         THEN [index |-> idx, exc |-> iterdir(d.models, ord.top).exc]
    ELSE ScanModels([index |-> idx, exc |-> "none"], d.models,
                    iterdir(d.models, ord.top).val, ord)

(***************************************************************************)
(* build_lineage.  lineage is a local dict filled by three loops, runs     *)
(* then models then datasets, a later assignment to a key replacing an     *)
(* earlier one; self.index["lineage"] is assigned after the loops only.    *)
(***************************************************************************)
Versions(cat) ==
    {p \in (DOMAIN cat) \X (UNION {DOMAIN cat[n] : n \in DOMAIN cat}) :
        p[2] \in DOMAIN cat[p[1]]}
EntityId(p) == p[1] \o "/" \o p[2]

\* dict.update: the entries of g replace those of f
Update(f, g) == [k \in DOMAIN f \cup DOMAIN g |-> IF k \in DOMAIN g THEN g[k] ELSE f[k]]

\* RunRecord with the two references exchanged
RunRecord_exchanged(config) ==
    [type |-> "run",
     dataset |-> PyStr(Format(Get(config, "model", EmptyStr).val)),
     model |-> PyStr(Format(Get(config, "dataset", EmptyStr).val)),
     experiment |-> Get(config, "experiment", EmptyStr).val]
RunRecord(config) ==
    [type |-> "run",
     dataset |-> PyStr(Format(Get(config, "dataset", EmptyStr).val)),
     model |-> PyStr(Format(Get(config, "model", EmptyStr).val)),
     experiment |-> Get(config, "experiment", EmptyStr).val]
RunRecords(idx) == [r \in DOMAIN idx.runs |-> RunRecord(idx.runs[r].config)]
RunsRaise(idx) == \E r \in DOMAIN idx.runs : idx.runs[r].config.t # "map"

ModelMeta(idx, p) == idx.models[p[1]][p[2]].metadata
ModelLinked(idx) ==
    {p \in Versions(idx.models) : Truthy(Get(ModelMeta(idx, p), "run_id", EmptyStr).val)}
ModelRecord(metadata) ==
    [type |-> "model",
     run_id |-> Get(metadata, "run_id", EmptyStr).val,
     dataset |-> Get(Get(metadata, "dataset", EmptyDict).val, "name", EmptyStr).val]
ModelRecords(idx) ==
    [k \in {EntityId(p) : p \in ModelLinked(idx)} |->
        ModelRecord(ModelMeta(idx, CHOOSE p \in ModelLinked(idx) : EntityId(p) = k))]
ModelsRaise(idx) ==
    \E p \in Versions(idx.models) :
        \/ ModelMeta(idx, p).t # "map"
        \/ /\ p \in ModelLinked(idx)
           /\ Get(ModelMeta(idx, p), "dataset", EmptyDict).val.t # "map"

DatasetMeta(idx, p) == idx.datasets[p[1]][p[2]].metadata
DatasetRecord(metadata) ==
    [type |-> "dataset",
     derived_from |-> Get(metadata, "derived_from", EmptyDict).val,
     source |-> Get(metadata, "source", EmptyDict).val]
DatasetRecords(idx) ==
    [k \in {EntityId(p) : p \in Versions(idx.datasets)} |->
        DatasetRecord(DatasetMeta(idx, CHOOSE p \in Versions(idx.datasets) : EntityId(p) = k))]
DatasetsRaise(idx) == \E p \in Versions(idx.datasets) : DatasetMeta(idx, p).t # "map"

\* build_lineage with the loop over the models after the loop over the datasets
build_lineage_models_last(idx) ==
    IF RunsRaise(idx) \/ ModelsRaise(idx) \/ DatasetsRaise(idx)
    THEN [index |-> idx, exc |-> "AttributeError"]
    ELSE [index |-> [idx EXCEPT !.lineage =
                        Update(Update(RunRecords(idx), DatasetRecords(idx)),
                               ModelRecords(idx))],
          exc |-> "none"]

build_lineage(idx) ==
    IF RunsRaise(idx) \/ ModelsRaise(idx) \/ DatasetsRaise(idx)
    THEN [index |-> idx, exc |-> "AttributeError"]
    ELSE [index |-> [idx EXCEPT !.lineage =
                        Update(Update(RunRecords(idx), ModelRecords(idx)),
                               DatasetRecords(idx))],
          exc |-> "none"]

\* the four calls in sequence: one that raises ends index_all
index_all(idx, d, ord) ==
    LET s1 == index_datasets(idx, d, ord)
        s2 == IF s1.exc # "none" THEN s1 ELSE index_runs(s1.index, d, ord)
        s3 == IF s2.exc # "none" THEN s2 ELSE index_models(s2.index, d, ord)
    IN  IF s3.exc # "none" THEN s3 ELSE build_lineage(s3.index)

(***************************************************************************)
(* RepositoryDoctor (tools/doctor.py).  A rule threads                     *)
(* st = [d, ok, exc]: the doctor as mutated so far, the rule's success     *)
(* flag, and the exception that ended the rule ("none": none).             *)
(***************************************************************************)
\* __init__
NewDoctor(strict) ==
    [strict |-> strict, errors |-> << >>, warnings |-> << >>,
     validation_results |-> [k \in {} |-> TRUE]]

\* seen lists the version directories handed to _validate_dataset_version and
\* _validate_model_version
Begin(d) == [d |-> d, ok |-> TRUE, exc |-> "none", seen |-> << >>]
\* self.errors.append(msg); success = False
Err(st, msg) == [st EXCEPT !.d.errors = Append(@, msg), !.ok = FALSE]
\* Warn with the warning counted against the rule's result
Warn_failing(st, msg) == [st EXCEPT !.d.warnings = Append(@, msg), !.ok = FALSE]
\* self.warnings.append(msg)
Warn(st, msg) == [st EXCEPT !.d.warnings = Append(@, msg)]
\* an exception leaves the rule
Fail(st, e) == [st EXCEPT !.exc = e]
\* self.validation_results[key] = success; return success
Conclude(st, key) ==
    IF st.exc # "none" THEN st
    ELSE [st EXCEPT !.d.validation_results = Put(@, key, st.ok)]

\* the node a relative path leads to
RECURSIVE Resolve(_, _)
Resolve(n, path) == IF path = << >> THEN n ELSE Resolve(Child(n, Head(path)), Tail(path))
RECURSIVE JoinPath(_)
JoinPath(path) ==
    IF Len(path) = 1 THEN Head(path) ELSE Head(path) \o "/" \o JoinPath(Tail(path))

RequiredDirectories ==
    <<<<"configs", "Configuration templates">>, <<"data", "Raw data storage">>,
      <<"datasets", "Versioned datasets">>, <<"docs", "Documentation">>,
      <<"environments", "Environment configuration">>,
      <<"experiments", "Experiment definitions">>, <<"models", "Model registry">>,
      <<"runs", "Execution records">>, <<"scripts", "Utility scripts">>,
      <<"src", "Source code">>, <<"spaces", "Interactive demos">>,
      <<"tools", "Project tooling">>>>
RequiredFiles ==
    <<<<<<"README.md">>, "Project documentation">>, <<<<".gitignore">>, "Git ignore rules">>,
      <<<<".gitattributes">>, "Git LFS configuration">>,
      <<<<".lfsconfig">>, "Git LFS settings">>,
      <<<<"requirements.txt">>, "Core dependencies">>,
      <<<<"requirements-dev.txt">>, "Development dependencies">>,
      <<<<"requirements-gpu.txt">>, "GPU dependencies">>,
      <<<<"environments", "system.yaml">>, "System configuration">>>>

_validate_required_directory(st, n, name, path) ==
    IF ~exists(n)
    THEN Err(st, "Required directory missing: " \o name \o " (" \o path \o ")")
    ELSE IF ~is_dir(n)
    THEN Err(st, "Required path exists but is not a directory: " \o name
                 \o " (" \o path \o ")")
    ELSE st

RECURSIVE LayoutDirectories(_, _, _)
LayoutDirectories(st, root, dirs) ==
    IF dirs = << >> THEN st
    ELSE LayoutDirectories(
             _validate_required_directory(st, Child(root, Head(dirs)[1]), Head(dirs)[2],
                                          Head(dirs)[1]),
             root, Tail(dirs))
RECURSIVE LayoutFiles(_, _, _)
LayoutFiles(st, root, files) ==
    IF files = << >> THEN st
    ELSE LayoutFiles(
             IF exists(Resolve(root, Head(files)[1])) THEN st
             ELSE Err(st, "Required file missing: " \o Head(files)[2]
                          \o " (" \o JoinPath(Head(files)[1]) \o ")"),
             root, Tail(files))

validate_tfc_0001_layout(d, root) ==
    Conclude(LayoutFiles(LayoutDirectories(Begin(d), root, RequiredDirectories),
                         root, RequiredFiles),
             "tfc_0001")

ConfigTemplates ==
    <<<<"configs", "datasets", "base.yaml">>, <<"configs", "models", "base.yaml">>,
      <<"configs", "training", "base.yaml">>, <<"configs", "sweeps", "base.yaml">>>>

\* isinstance(content, dict)
IsDict(v) == v.t \in {"map", "imap"}

RECURSIVE Templates(_, _, _)
Templates(st, root, ts) ==
    IF ts = << >> \/ st.exc # "none" THEN st
    ELSE LET n == Resolve(root, Head(ts))
             name == JoinPath(Head(ts))
         IN  Templates(
                 IF ~exists(n) THEN Err(st, "Missing configuration template: " \o name)
                 ELSE IF Open(n).exc # "none" THEN Fail(st, Open(n).exc)
                 ELSE IF yaml_safe_load(n).exc = "YAMLError"
                 THEN Err(st, "Invalid YAML in " \o name \o ": <YAMLError>")
                 ELSE IF yaml_safe_load(n).exc # "none" THEN Fail(st, yaml_safe_load(n).exc)
                 ELSE IF ~IsDict(yaml_safe_load(n).val)
                 THEN Err(st, "Invalid YAML structure in " \o name)
                 ELSE st,
                 root, Tail(ts))

validate_tfc_0002_schemas(d, root) == Conclude(Templates(Begin(d), root, ConfigTemplates), "tfc_0002")

\* "sub in s" on strings
IsSubstring(sub, s) ==
    \E i \in 1..(Len(s) - Len(sub) + 1) : SubSeq(s, i, i + Len(sub) - 1) = sub

\* "field in doc": membership of a key in a dict, of an element in a list, of a
\* substring in a str; TypeError on a value that is no container
Contains(doc, field) ==
    CASE doc.t = "map" -> Ok(field \in DOMAIN doc.m)
      [] doc.t = "imap" -> Ok(FALSE)
      [] doc.t = "list" -> Ok(\E i \in DOMAIN doc.xs : doc.xs[i] = PyStr(field))
      [] doc.t = "str" -> Ok(IsSubstring(field, doc.s))
      [] OTHER -> Raise("TypeError")

\* for field in required_fields: if field not in doc: error
RECURSIVE CheckFields(_, _, _, _)
CheckFields(st, prefix, doc, fields) ==
    IF fields = << >> \/ st.exc # "none" THEN st
    ELSE LET c == Contains(doc, Head(fields))
         IN  IF c.exc # "none" THEN Fail(st, c.exc)
             ELSE CheckFields(IF c.val THEN st ELSE Err(st, prefix \o Head(fields)),
                              prefix, doc, Tail(fields))

\* if not metadata.get("version", "").startswith("v"): error
CheckVersion(st, prefix, doc) ==
    LET g == Get(doc, "version", EmptyStr)
        shown == IF Contains(doc, "version").val THEN Format(g.val) ELSE "None"
    IN  IF st.exc # "none" THEN st
        ELSE IF g.exc # "none" THEN Fail(st, g.exc)
        ELSE IF g.val.t # "str" THEN Fail(st, "AttributeError")
        ELSE IF startswith(g.val.s, "v") THEN st
        ELSE Err(st, prefix \o shown)

\* the loop over ["train", "val", "test"] of _validate_dataset_version
RECURSIVE CheckSplits(_, _, _, _)
CheckSplits(st, vdir, name, splits) ==
    IF splits = << >> THEN st
    ELSE CheckSplits(
             IF exists(Child(vdir, Head(splits))) THEN st
             ELSE Warn(st, "Dataset " \o name \o " missing " \o Head(splits) \o " split"),
             vdir, name, Tail(splits))

DatasetRequiredFields == <<"name", "version", "created_at", "description", "source", "hash">>

\* dataset_path.name is the name of the version directory
_validate_dataset_version(st0, vdir, name, where) ==
    LET st == CheckSplits(st0, vdir, name, SplitNames)
        n == Child(vdir, "metadata.yaml")
    IN  IF ~exists(n) THEN Err(st, "Dataset " \o name \o " missing metadata.yaml")
        ELSE IF Open(n).exc # "none" THEN Fail(st, Open(n).exc)
        ELSE IF yaml_safe_load(n).exc = "YAMLError"
        THEN Err(st, "Invalid YAML in dataset metadata " \o where \o ": <YAMLError>")
        ELSE IF yaml_safe_load(n).exc # "none" THEN Fail(st, yaml_safe_load(n).exc)
        ELSE CheckVersion(
                 CheckFields(st, "Dataset " \o name \o " metadata missing field: ",
                             yaml_safe_load(n).val, DatasetRequiredFields),
                 "Dataset " \o name \o " has invalid version format: ",
                 yaml_safe_load(n).val)

RECURSIVE DoctorDatasetVersions(_, _, _, _)
DoctorDatasetVersions(st, ddir, where, vs) ==
    IF vs = << >> \/ st.exc # "none" THEN st
    ELSE DoctorDatasetVersions(
             IF is_dir(ddir.e[Head(vs)])
             THEN _validate_dataset_version(
                      [st EXCEPT !.seen = Append(@, where \o "/" \o Head(vs))],
                      ddir.e[Head(vs)], Head(vs), where \o "/" \o Head(vs))
             ELSE st,
             ddir, where, Tail(vs))

RECURSIVE DoctorDatasets(_, _, _, _)
DoctorDatasets(st, root, names, ord) ==
    IF names = << >> \/ st.exc # "none" THEN st
    ELSE DoctorDatasets(
             IF is_dir(root.e[Head(names)]) /\ Head(names) # "README.md"
             THEN DoctorDatasetVersions(st, root.e[Head(names)], "datasets/" \o Head(names),
                                        Listing(root.e[Head(names)], ord.sub))
             ELSE st,
             root, Tail(names), ord)

validate_tfc_0004_datasets(d, root, ord) ==
    LET p == Child(root, "datasets")
    IN  IF ~exists(p) THEN Begin(d)
        ELSE IF iterdir(p, ord.top).exc # "none" THEN Fail(Begin(d), iterdir(p, ord.top).exc)
        ELSE Conclude(DoctorDatasets(Begin(d), p, iterdir(p, ord.top).val, ord), "tfc_0004")

ModelRequiredFiles ==
    <<<<"metadata.yaml", "Model metadata">>, <<"metrics.yaml", "Model metrics">>,
      <<"card.md", "Model card">>>>
ModelRequiredFields ==
    <<"name", "version", "created_at", "run_id", "dataset", "code", "framework">>

RECURSIVE CheckModelFiles(_, _, _, _)
CheckModelFiles(st, vdir, name, files) ==
    IF files = << >> THEN st
    ELSE CheckModelFiles(
             IF exists(Child(vdir, Head(files)[1])) THEN st
             ELSE Warn(st, "Model " \o name \o " missing " \o Head(files)[2]
                           \o " (" \o Head(files)[1] \o ")"),
             vdir, name, Tail(files))

_validate_model_version(st0, vdir, name, where) ==
    LET st1 == CheckModelFiles(st0, vdir, name, ModelRequiredFiles)
        st == IF \E x \in DOMAIN vdir.e : is_file(vdir.e[x]) /\ suffix(x) \in ModelSuffixes
              THEN st1
              ELSE Warn(st1, "Model " \o name \o " has no recognizable model artifact")
        n == Child(vdir, "metadata.yaml")
    IN  IF ~exists(n) THEN st
        ELSE IF Open(n).exc # "none" THEN Fail(st, Open(n).exc)
        ELSE IF yaml_safe_load(n).exc = "YAMLError"
        THEN Err(st, "Invalid YAML in model metadata " \o where \o ": <YAMLError>")
        ELSE IF yaml_safe_load(n).exc # "none" THEN Fail(st, yaml_safe_load(n).exc)
        ELSE CheckVersion(
                 CheckFields(st, "Model " \o name \o " metadata missing field: ",
                             yaml_safe_load(n).val, ModelRequiredFields),
                 "Model " \o name \o " has invalid version format: ",
                 yaml_safe_load(n).val)

RECURSIVE DoctorModelVersions(_, _, _, _)
DoctorModelVersions(st, mdir, where, vs) ==
    IF vs = << >> \/ st.exc # "none" THEN st
    ELSE DoctorModelVersions(
             IF is_dir(mdir.e[Head(vs)])
             THEN _validate_model_version(
                      [st EXCEPT !.seen = Append(@, where \o "/" \o Head(vs))],
                      mdir.e[Head(vs)], Head(vs), where \o "/" \o Head(vs))
             ELSE st,
             mdir, where, Tail(vs))

RECURSIVE DoctorModels(_, _, _, _)
DoctorModels(st, root, names, ord) ==
    IF names = << >> \/ st.exc # "none" THEN st
    ELSE DoctorModels(
             IF is_dir(root.e[Head(names)]) /\ Head(names) # "README.md"
             THEN DoctorModelVersions(st, root.e[Head(names)], "models/" \o Head(names),
                                      Listing(root.e[Head(names)], ord.sub))
             ELSE st,
             root, Tail(names), ord)

validate_tfc_0005_models(d, root, ord) ==
    LET p == Child(root, "models")
    IN  IF ~exists(p) THEN Begin(d)
        ELSE IF iterdir(p, ord.top).exc # "none" THEN Fail(Begin(d), iterdir(p, ord.top).exc)
        ELSE Conclude(DoctorModels(Begin(d), p, iterdir(p, ord.top).val, ord), "tfc_0005")

RunRequiredFiles ==
    <<<<"config.yaml", "Run configuration">>, <<"metrics.json", "Run metrics">>,
      <<"system.json", "System metadata">>, <<"log.txt", "Run log">>>>
RunRequiredFields == <<"run_id", "experiment", "model", "dataset">>

RECURSIVE CheckRunFiles(_, _, _, _)
CheckRunFiles(st, rdir, name, files) ==
    IF files = << >> THEN st
    ELSE CheckRunFiles(
             IF exists(Child(rdir, Head(files)[1])) THEN st
             ELSE Err(st, "Run " \o name \o " missing " \o Head(files)[2]
                          \o " (" \o Head(files)[1] \o ")"),
             rdir, name, Tail(files))

\* the "Validate config.yaml" block of _validate_run_directory
CheckRunConfig(st, rdir, name, where) ==
    LET n == Child(rdir, "config.yaml")
    IN  IF ~exists(n) THEN st
        ELSE IF Open(n).exc # "none" THEN Fail(st, Open(n).exc)
        ELSE IF yaml_safe_load(n).exc = "YAMLError"
        THEN Err(st, "Invalid YAML in run config " \o where \o ": <YAMLError>")
        ELSE IF yaml_safe_load(n).exc # "none" THEN Fail(st, yaml_safe_load(n).exc)
        ELSE CheckFields(st, "Run " \o name \o " config missing field: ",
                         yaml_safe_load(n).val, RunRequiredFields)

\* the "Validate metrics.json" block of _validate_run_directory
CheckRunMetrics(st, rdir, name, where) ==
    LET n == Child(rdir, "metrics.json")
    IN  IF st.exc # "none" \/ ~exists(n) THEN st
        ELSE IF Open(n).exc # "none" THEN Fail(st, Open(n).exc)
        ELSE IF json_load(n).exc = "JSONDecodeError"
        THEN Err(st, "Invalid JSON in run metrics " \o where \o ": <JSONDecodeError>")
        ELSE IF json_load(n).exc # "none" THEN Fail(st, json_load(n).exc)
        ELSE IF ~IsDict(json_load(n).val)
        THEN Err(st, "Run " \o name \o " metrics.json is not a valid JSON object")
        ELSE st

_validate_run_directory(st, rdir, name, where) ==
    CheckRunMetrics(
        CheckRunConfig(CheckRunFiles(st, rdir, name, RunRequiredFiles), rdir, name, where),
        rdir, name, where)

RECURSIVE DoctorRuns(_, _, _)
DoctorRuns(st, root, names) ==
    IF names = << >> \/ st.exc # "none" THEN st
    ELSE DoctorRuns(
             IF is_dir(root.e[Head(names)]) /\ startswith(Head(names), "run-")
             THEN _validate_run_directory(st, root.e[Head(names)], Head(names),
                                          "runs/" \o Head(names))
             ELSE st,
             root, Tail(names))

validate_tfc_0003_runs(d, root, ord) ==
    LET p == Child(root, "runs")
    IN  IF ~exists(p) THEN Begin(d)
        ELSE IF iterdir(p, ord.top).exc # "none" THEN Fail(Begin(d), iterdir(p, ord.top).exc)
        ELSE Conclude(DoctorRuns(Begin(d), p, iterdir(p, ord.top).val), "tfc_0003")

\* the text f.read() returns
Content(n) ==
    CASE n.c.k = "text" -> n.c.s
      [] OTHER -> ""

endswith(s, p) == Len(s) >= Len(p) /\ SubSeq(s, Len(s) - Len(p) + 1, Len(s)) = p

\* project_root.rglob("*"): every path below a directory, with its node
RECURSIVE Walk(_, _, _)
RECURSIVE WalkEntries(_, _, _, _)
WalkEntries(n, names, prefix, rev) ==
    IF names = << >> THEN << >>
    ELSE <<[path |-> prefix \o Head(names), name |-> Head(names), node |-> n.e[Head(names)]]>>
         \o Walk(n.e[Head(names)], prefix \o Head(names) \o "/", rev)
         \o WalkEntries(n, Tail(names), prefix, rev)
Walk(n, prefix, rev) ==
    IF is_dir(n) THEN WalkEntries(n, Listing(n, rev), prefix, rev) ELSE << >>

LargeExtensions ==
    <<".pth", ".pt", ".pkl", ".h5", ".hdf5", ".onnx", ".pb", ".png", ".jpg", ".jpeg",
      ".csv", ".parquet">>
LargeSize == 1024 * 1024

\* the files of rglob("*" + ext) above 1MB that git lfs ls-files does not list
Untracked(rp, walked, ext) ==
    SelectSeq(walked,
              LAMBDA f : /\ endswith(f.name, ext)
                         /\ is_file(f.node)
                         /\ st_size(f.node) > LargeSize
                         /\ f.path \notin rp.tracked)

RECURSIVE WarnEach(_, _)
WarnEach(st, files) ==
    IF files = << >> THEN st
    ELSE WarnEach(Warn(st, "Large file not tracked by LFS: " \o Head(files).path),
                  Tail(files))

RECURSIVE LargeFiles(_, _, _, _)
LargeFiles(st, rp, walked, exts) ==
    IF exts = << >> THEN st
    ELSE LargeFiles(WarnEach(st, Untracked(rp, walked, Head(exts))), rp, walked, Tail(exts))

\* validate_git_lfs_setup going on after the error about git lfs
validate_git_lfs_setup_going_on(d, rp, ord) ==
    LET b == IF rp.lfs THEN Begin(d)
             ELSE Err(Begin(d), "Git LFS is not installed or not configured")
        ga == Child(rp.root, ".gitattributes")
        st == IF ~exists(ga)
              THEN Err(b, "Missing .gitattributes file for LFS configuration")
              ELSE IF IsSubstring("filter=lfs", Content(ga)) THEN b
              ELSE Warn(b, "No LFS filters found in .gitattributes")
    IN  LargeFiles(st, rp, Walk(rp.root, "", ord.sub), LargeExtensions)

validate_git_lfs_setup(d, rp, ord) ==
    LET ga == Child(rp.root, ".gitattributes")
        st == IF ~exists(ga)
              THEN Err(Begin(d), "Missing .gitattributes file for LFS configuration")
              ELSE IF Open(ga).exc # "none" THEN Fail(Begin(d), Open(ga).exc)
              ELSE IF Read(ga).exc # "none" THEN Fail(Begin(d), Read(ga).exc)
              ELSE IF IsSubstring("filter=lfs", Content(ga)) THEN Begin(d)
              ELSE Warn(Begin(d), "No LFS filters found in .gitattributes")
    IN  IF ~rp.lfs THEN Err(Begin(d), "Git LFS is not installed or not configured")
        ELSE IF st.exc # "none" THEN st
        ELSE LargeFiles(st, rp, Walk(rp.root, "", ord.sub), LargeExtensions)

\* success &= rule(): the call of one rule inside validate_all_tfc.  run is
\* [d, success, exc, ran, results]: ran lists the rules entered, results holds
\* what each rule that returned has returned
Step(run, name, st) ==
    IF run.exc # "none" THEN run
    ELSE [d |-> st.d,
          success |-> IF st.exc = "none" THEN run.success /\ st.ok ELSE run.success,
          exc |-> st.exc,
          ran |-> Append(run.ran, name),
          seen |-> run.seen \o st.seen,
          results |-> IF st.exc = "none" THEN Put(run.results, name, st.ok)
                      ELSE run.results]

RuleNames == <<"layout", "schemas", "runs", "datasets", "models", "git_lfs">>

\* Dispatch with the layout rule run before the rule asked for
Dispatch_after_layout(run, k, rp, ord) ==
    LET r1 == Step(run, "layout", validate_tfc_0001_layout(run.d, rp.root))
    IN  CASE k = 1 -> r1
          [] k = 2 -> Step(r1, "schemas", validate_tfc_0002_schemas(r1.d, rp.root))
          [] k = 3 -> Step(r1, "runs", validate_tfc_0003_runs(r1.d, rp.root, ord))
          [] k = 4 -> Step(r1, "datasets", validate_tfc_0004_datasets(r1.d, rp.root, ord))
          [] k = 5 -> Step(r1, "models", validate_tfc_0005_models(r1.d, rp.root, ord))

\* validations[target_tfc]()
Dispatch(run, k, rp, ord) ==
    CASE k = 1 -> Step(run, "layout", validate_tfc_0001_layout(run.d, rp.root))
      [] k = 2 -> Step(run, "schemas", validate_tfc_0002_schemas(run.d, rp.root))
      [] k = 3 -> Step(run, "runs", validate_tfc_0003_runs(run.d, rp.root, ord))
      [] k = 4 -> Step(run, "datasets", validate_tfc_0004_datasets(run.d, rp.root, ord))
      [] k = 5 -> Step(run, "models", validate_tfc_0005_models(run.d, rp.root, ord))

\* RunAll without the call of validate_tfc_0005_models
RunAll_skipping_models(run, rp, ord) ==
    LET r1 == Step(run, "layout", validate_tfc_0001_layout(run.d, rp.root))
        r2 == Step(r1, "schemas", validate_tfc_0002_schemas(r1.d, rp.root))
        r3 == Step(r2, "runs", validate_tfc_0003_runs(r2.d, rp.root, ord))
        r4 == Step(r3, "datasets", validate_tfc_0004_datasets(r3.d, rp.root, ord))
    IN  Step(r4, "git_lfs", validate_git_lfs_setup(r4.d, rp, ord))

\* the branch "Run all validations"
RunAll(run, rp, ord) ==
    LET r1 == Step(run, "layout", validate_tfc_0001_layout(run.d, rp.root))
        r2 == Step(r1, "schemas", validate_tfc_0002_schemas(r1.d, rp.root))
        r3 == Step(r2, "runs", validate_tfc_0003_runs(r2.d, rp.root, ord))
        r4 == Step(r3, "datasets", validate_tfc_0004_datasets(r3.d, rp.root, ord))
        r5 == Step(r4, "models", validate_tfc_0005_models(r4.d, rp.root, ord))
    IN  Step(r5, "git_lfs", validate_git_lfs_setup(r5.d, rp, ord))

\* target is None or an int; "if target_tfc:" is false for None and for 0
validate_all_tfc(d, rp, target, ord) ==
    LET run == [d |-> d, success |-> TRUE, exc |-> "none", ran |-> << >>,
                seen |-> << >>, results |-> [k \in {} |-> TRUE]]
    IN  IF Truthy(target)
        THEN IF target.n \in 1..5 THEN Dispatch(run, target.n, rp, ord)
             ELSE [run EXCEPT !.d.errors = Append(@, "Unknown TFC number: " \o IntText(target.n)),
                              !.success = FALSE]
        ELSE RunAll(run, rp, ord)

exit_with_code(d, success) ==
    IF success THEN 0
    ELSE IF d.warnings # << >> /\ ~d.strict THEN 1
    ELSE 2

(***************************************************************************)
(* json.dumps and json.loads.  A JSON text is kept as the value it         *)
(* denotes: null, a string, a number, an array, an object of string keys.  *)
(***************************************************************************)
JNull == [j |-> "null"]
JString(s) == [j |-> "string", s |-> s]
JNumber(n) == [j |-> "number", n |-> n]
JArray(xs) == [j |-> "array", xs |-> xs]
JObject(m) == [j |-> "object", m |-> m]

\* the encoder has a JSON form for the value: a date has none
RECURSIVE Serializable(_)
Serializable(v) ==
    CASE v.t \in {"null", "str", "int"} -> TRUE
      [] v.t = "list" -> \A i \in DOMAIN v.xs : Serializable(v.xs[i])
      [] v.t \in {"map", "imap"} -> \A k \in DOMAIN v.m : Serializable(v.m[k])
      [] v.t = "date" -> FALSE

\* the JSON form of a value: an int key of a dict is written as its decimal text
RECURSIVE Encode(_)
Encode(v) ==
    CASE v.t = "null" -> JNull
      [] v.t = "str" -> JString(v.s)
      [] v.t = "int" -> JNumber(v.n)
      [] v.t = "list" -> JArray([i \in DOMAIN v.xs |-> Encode(v.xs[i])])
      [] v.t = "map" -> JObject([k \in DOMAIN v.m |-> Encode(v.m[k])])
      [] v.t = "imap" ->
            JObject([k \in {IntText(i) : i \in DOMAIN v.m} |->
                        Encode(v.m[CHOOSE i \in DOMAIN v.m : IntText(i) = k])])

\* the value json.loads builds for a JSON form
RECURSIVE Decode(_)
Decode(x) ==
    CASE x.j = "null" -> PyNone
      [] x.j = "string" -> PyStr(x.s)
      [] x.j = "number" -> PyInt(x.n)
      [] x.j = "array" -> PyList([i \in DOMAIN x.xs |-> Decode(x.xs[i])])
      [] x.j = "object" -> PyDict([k \in DOMAIN x.m |-> Decode(x.m[k])])

\* the fields of an index entry that hold a loaded document
DocFields == {"metadata", "config", "metrics", "system"}
\* the values of the index that came out of documents
DatasetDocs(idx) == {idx.datasets[p[1]][p[2]].metadata : p \in Versions(idx.datasets)}
RunDocs(idx) ==
    UNION {{idx.runs[r].config, idx.runs[r].metrics, idx.runs[r].system} : r \in DOMAIN idx.runs}
ModelDocs(idx) ==
    UNION {{idx.models[p[1]][p[2]].metadata, idx.models[p[1]][p[2]].metrics} :
              p \in Versions(idx.models)}
LineageDocs(idx) ==
    UNION {{idx.lineage[k][f] : f \in DOMAIN idx.lineage[k] \ {"type"}} :
              k \in DOMAIN idx.lineage}
IndexDocs(idx) == DatasetDocs(idx) \cup RunDocs(idx) \cup ModelDocs(idx) \cup LineageDocs(idx)

\* the JSON form of the index: strings, counts, sizes and lists of them are
\* written as they are, the documents through the encoder
EncodeEntry(rec) == [f \in DOMAIN rec |-> IF f \in DocFields THEN Encode(rec[f]) ELSE rec[f]]
EncodeRecord(rec) == [f \in DOMAIN rec |-> IF f = "type" THEN rec[f] ELSE Encode(rec[f])]
EncodeVersions(cat) ==
    [n \in DOMAIN cat |-> [v \in DOMAIN cat[n] |-> EncodeEntry(cat[n][v])]]
EncodeIndex(idx) ==
    [datasets |-> EncodeVersions(idx.datasets),
     runs |-> [r \in DOMAIN idx.runs |-> EncodeEntry(idx.runs[r])],
     models |-> EncodeVersions(idx.models),
     lineage |-> [k \in DOMAIN idx.lineage |-> EncodeRecord(idx.lineage[k])],
     metadata |-> idx.metadata]

DecodeEntry(rec) == [f \in DOMAIN rec |-> IF f \in DocFields THEN Decode(rec[f]) ELSE rec[f]]
DecodeRecord(rec) == [f \in DOMAIN rec |-> IF f = "type" THEN rec[f] ELSE Decode(rec[f])]
DecodeVersions(cat) ==
    [n \in DOMAIN cat |-> [v \in DOMAIN cat[n] |-> DecodeEntry(cat[n][v])]]

\* json.dumps(indexer.index, indent=2): TypeError on a value with no JSON form
json_dumps(idx) ==
    IF \A v \in IndexDocs(idx) : Serializable(v)
    THEN Ok(EncodeIndex(idx))
    ELSE Raise("TypeError")

\* json.loads of what json_dumps wrote
json_loads(text) ==
    [datasets |-> DecodeVersions(text.datasets),
     runs |-> [r \in DOMAIN text.runs |-> DecodeEntry(text.runs[r])],
     models |-> DecodeVersions(text.models),
     lineage |-> [k \in DOMAIN text.lineage |-> DecodeRecord(text.lineage[k])],
     metadata |-> text.metadata]

(***************************************************************************)
(* The workspaces explored: documents, artifact directories, and for each  *)
(* category directory the trees it ranges over.                            *)
(***************************************************************************)
FileNames == <<"f1", "f2", "f3", "f4">>
SplitDir(n) == Dir([x \in {FileNames[i] : i \in 1..n} |-> File(Blank)])

MetaIris ==
    PyDict(("name" :> PyStr("a")) @@ ("version" :> PyStr("v1")) @@ ("source" :> PyStr("uci")))
MetaDerived ==
    PyDict(("name" :> PyStr("b")) @@ ("derived_from" :> PyStr("a/v1")))
SomeList == PyList(<<PyStr("x")>>)

DVScenario(n) ==
    Dir(("metadata.yaml" :> File(Doc(MetaIris))) @@ ("train" :> SplitDir(n))
        @@ ("val" :> SplitDir(n - 1)))
DVDerived == Dir(("metadata.yaml" :> File(Doc(MetaDerived))) @@ ("test" :> SplitDir(0)))
DVBadSplit == Dir(("metadata.yaml" :> File(Doc(MetaIris))) @@ ("train" :> File(Blank)))
DVListMeta == Dir(("metadata.yaml" :> File(Doc(SomeList))) @@ ("val" :> SplitDir(1)))
DVGarbled == Dir("metadata.yaml" :> File(Garbled))

DatasetsPair ==
    Dir(("a" :> Dir("v1" :> DVScenario(1))) @@ ("b" :> Dir("v1" :> DVDerived))
        @@ ("README.md" :> File(Text("# Datasets"))))
DatasetsTrees ==
    {Absent,
     Dir("a" :> Dir("v1" :> DVScenario(MaxEntries))),
     DatasetsPair,
     Dir(("a" :> Dir("v1" :> DVBadSplit))
         @@ ("b" :> Dir(("v1" :> DVGarbled) @@ ("old" :> EmptyDir) @@ ("v2" :> File(Blank))))),
     Dir("b" :> Dir("v1" :> DVListMeta))}

CfgFull ==
    PyDict(("model" :> PyStr("resnet")) @@ ("dataset" :> PyStr("a/v1"))
           @@ ("experiment" :> PyStr("exp")))
CfgOdd ==
    PyDict(("model" :> PyInt(5))
           @@ ("dataset" :> PyDict(("name" :> PyStr("a")) @@ ("version" :> PyStr("v1")))))
MetricsDoc == PyDict("accuracy" :> PyInt(1))

RunFull ==
    Dir(("config.yaml" :> File(Doc(CfgFull))) @@ ("metrics.json" :> File(Doc(MetricsDoc)))
        @@ ("system.json" :> File(Doc(EmptyDict))) @@ ("log.txt" :> File(Text("started"))))
RunOdd ==
    Dir(("config.yaml" :> File(Doc(CfgOdd))) @@ ("metrics.json" :> File(Doc(PyNone)))
        @@ ("log.txt" :> File(Binary)))
RunListCfg == Dir("config.yaml" :> File(Doc(SomeList)))
RunGarbled == Dir(("config.yaml" :> File(Garbled)) @@ ("metrics.json" :> File(Garbled)))
RunCfgDir == Dir("config.yaml" :> EmptyDir)

RunsPair == Dir(("run-1" :> RunFull) @@ ("run-2" :> RunOdd) @@ ("tmp" :> EmptyDir))
RunsTrees ==
    {Absent,
     RunsPair,
     Dir(("run-1" :> RunListCfg) @@ ("run-2" :> RunGarbled)),
     Dir(("run-1" :> RunCfgDir) @@ ("run-2" :> RunFull))}

MetaModel ==
    PyDict(("name" :> PyStr("a")) @@ ("run_id" :> PyStr("run-1"))
           @@ ("dataset" :> PyDict("name" :> PyStr("a"))))
MetaNoRun == PyDict("name" :> PyStr("m"))
MetaEmptyRun == PyDict(("name" :> PyStr("m")) @@ ("run_id" :> EmptyStr))
MetaStrDataset == PyDict(("run_id" :> PyStr("run-2")) @@ ("dataset" :> PyStr("a/v1")))

MVFull(meta) ==
    Dir(("metadata.yaml" :> File(Doc(meta))) @@ ("metrics.yaml" :> File(Doc(MetricsDoc)))
        @@ ("card.md" :> File(Text("# card"))) @@ ("w.pt" :> File(Blob(3)))
        @@ ("w.onnx" :> File(Blob(4))) @@ ("notes.txt" :> File(Text("n"))))
MVBare(meta) == Dir("metadata.yaml" :> File(Doc(meta)))

ModelsPair ==
    Dir("m" :> Dir(("v1" :> MVFull(MetaModel)) @@ ("v2" :> MVBare(MetaNoRun))
                   @@ ("v3" :> MVBare(MetaEmptyRun))))
ModelsTrees ==
    {Absent,
     Dir("a" :> Dir("v1" :> MVFull(MetaModel))),
     ModelsPair,
     Dir("m" :> Dir("v1" :> MVBare(MetaStrDataset)))}

Workspaces == [datasets : DatasetsTrees, runs : RunsTrees, models : ModelsTrees]

(***************************************************************************)
(* The indexer in use and the calls made on it.                            *)
(***************************************************************************)
NoReturn == [t |-> "none"]
NotLoaded == [t |-> "none"]
NotDumped == [t |-> "none"]
\* the doctor is not part of the indexer's runs
NoRepo == [t |-> "none"]
NoDoctor == [t |-> "none"]
NoOutcome == [t |-> "none"]
\* the experiment runner is not part of these runs
NoRunners == << >>

Init ==
    /\ disk \in Workspaces
    /\ index = NewIndex(0)
    /\ last = [op |-> "__init__", exc |-> "none"]
    /\ stamp = 0
    /\ prev = NoReturn
    /\ cur = NoReturn
    /\ edits = 0
    /\ calls = 0
    /\ loaded = NotLoaded
    /\ dumped = NotDumped
    /\ repo = NoRepo
    /\ doctor = NoDoctor
    /\ outcome = NoOutcome
    /\ runners = NoRunners

\* WorkspaceIndexer(project_root): a new indexer replaces the one in use
Construct ==
    \E now \in stamp..MaxStamp :
        /\ last.op # "__init__" \/ now # stamp
        /\ index' = NewIndex(now)
        /\ stamp' = now
        /\ last' = [op |-> "__init__", exc |-> "none"]
        /\ UNCHANGED <<disk, prev, cur, edits, calls, loaded, dumped, repo, doctor, outcome, runners>>

\* a method of the indexer in use that returns nothing
Call(op, r) ==
    /\ calls < MaxCalls
    /\ index' = r.index
    /\ last' = [op |-> op, exc |-> r.exc]
    /\ calls' = calls + 1
    /\ prev' = NoReturn
    /\ cur' = NoReturn
    /\ UNCHANGED <<disk, stamp, edits, loaded, dumped, repo, doctor, outcome, runners>>

IndexDatasets == \E ord \in Orders : Call("index_datasets", index_datasets(index, disk, ord))
IndexRuns == \E ord \in Orders : Call("index_runs", index_runs(index, disk, ord))
IndexModels == \E ord \in Orders : Call("index_models", index_models(index, disk, ord))
BuildLineage == Call("build_lineage", build_lineage(index))

\* index_all returns self.index unless a step raised
IndexAll ==
    \E ord \in Orders :
        LET r == index_all(index, disk, ord)
        IN  /\ calls < MaxCalls
            /\ index' = r.index
            /\ last' = [op |-> "index_all", exc |-> r.exc]
            /\ calls' = calls + 1
            /\ IF r.exc = "none"
               THEN /\ cur' = [t |-> "ret", index |-> r.index,
                               fresh |-> index = NewIndex(stamp)]
                    /\ prev' = cur
               ELSE /\ prev' = NoReturn
                    /\ cur' = NoReturn
            /\ UNCHANGED <<disk, stamp, edits, loaded, dumped, repo, doctor, outcome, runners>>

\* the tree changes between calls: a category directory that exists is removed
\* with all it holds, one that is absent is created with artifacts in it
Edit(tree) ==
    /\ edits < MaxEdits
    /\ disk' = tree
    /\ edits' = edits + 1
    /\ last' = [op |-> "edit", exc |-> "none"]
    /\ prev' = NoReturn
    /\ cur' = NoReturn
    /\ UNCHANGED <<index, stamp, calls, loaded, dumped, repo, doctor, outcome, runners>>

EditDatasets ==
    Edit([disk EXCEPT !.datasets = IF exists(@) THEN Absent ELSE DatasetsPair])
EditRuns ==
    Edit([disk EXCEPT !.runs = IF exists(@) THEN Absent ELSE RunsPair])
EditModels ==
    Edit([disk EXCEPT !.models = IF exists(@) THEN Absent ELSE ModelsPair])

Next ==
    \/ Construct
    \/ IndexDatasets
    \/ IndexRuns
    \/ IndexModels
    \/ BuildLineage
    \/ IndexAll
    \/ EditDatasets
    \/ EditRuns
    \/ EditModels

Spec == Init /\ [][Next]_vars

\* the indexer used through index_all alone
NextAll ==
    \/ Construct
    \/ IndexAll
    \/ EditDatasets
    \/ EditRuns
    \/ EditModels

SpecAll == Init /\ [][NextAll]_vars

(***************************************************************************)
(* Direct calls of the two loaders, on every kind of path.                 *)
(***************************************************************************)
Scalars == {PyNone, EmptyStr, PyStr("x"), PyInt(0), PyInt(7)}
Documents ==
    Scalars \cup {PyList(<< >>), SomeList, MetaIris, CfgFull, CfgOdd, MetaModel}
    \cup {PyDict(f) : f \in UNION {[ks -> Scalars] : ks \in SUBSET {"name", "run_id", "dataset"}}}
LoaderNodes ==
    {Absent, EmptyDir, File(Binary), File(Garbled), File(Blank)}
    \cup {File(Doc(v)) : v \in Documents}

InitLoader ==
    /\ disk = [datasets |-> Absent, runs |-> Absent, models |-> Absent]
    /\ index = NewIndex(0)
    /\ last = [op |-> "__init__", exc |-> "none"]
    /\ stamp = 0
    /\ prev = NoReturn
    /\ cur = NoReturn
    /\ edits = 0
    /\ calls = 0
    /\ loaded = NotLoaded
    /\ dumped = NotDumped
    /\ repo = NoRepo
    /\ doctor = NoDoctor
    /\ outcome = NoOutcome
    /\ runners = NoRunners

CallLoadYaml ==
    \E n \in LoaderNodes :
        /\ loaded' = [t |-> "called", fmt |-> "yaml", node |-> n, out |-> _load_yaml_file(n)]
        /\ UNCHANGED <<disk, index, last, stamp, prev, cur, edits, calls, dumped, repo, doctor, outcome, runners>>

CallLoadJson ==
    \E n \in LoaderNodes :
        /\ loaded' = [t |-> "called", fmt |-> "json", node |-> n, out |-> _load_json_file(n)]
        /\ UNCHANGED <<disk, index, last, stamp, prev, cur, edits, calls, dumped, repo, doctor, outcome, runners>>

NextLoader == CallLoadYaml \/ CallLoadJson

SpecLoader == InitLoader /\ [][NextLoader]_vars

(***************************************************************************)
(* The index command with --json: index_all, then json.dumps of the index. *)
(***************************************************************************)
MetaDated ==
    PyDict(("name" :> PyStr("a")) @@ ("version" :> PyStr("v1"))
           @@ ("created_at" :> PyDate(2024, 1, 1)) @@ ("source" :> PyStr("uci")))
CfgLabels ==
    PyDict(("model" :> PyStr("resnet")) @@ ("dataset" :> PyStr("a/v1"))
           @@ ("labels" :> PyIntKeyed((0 :> PyStr("cat")) @@ (1 :> PyStr("dog")))))
DVDated == Dir(("metadata.yaml" :> File(Doc(MetaDated))) @@ ("train" :> SplitDir(1)))
RunLabels ==
    Dir(("config.yaml" :> File(Doc(CfgLabels))) @@ ("metrics.json" :> File(Doc(MetricsDoc))))

DumpWorkspaces ==
    [datasets : {Absent, DatasetsPair, Dir("a" :> Dir("v1" :> DVDated))},
     runs : {Absent, RunsPair, Dir("run-1" :> RunLabels)},
     models : {Absent, ModelsPair}]

InitDump ==
    /\ disk \in DumpWorkspaces
    /\ index = NewIndex(0)
    /\ last = [op |-> "__init__", exc |-> "none"]
    /\ stamp = 0
    /\ prev = NoReturn
    /\ cur = NoReturn
    /\ edits = 0
    /\ calls = 0
    /\ loaded = NotLoaded
    /\ dumped = NotDumped
    /\ repo = NoRepo
    /\ doctor = NoDoctor
    /\ outcome = NoOutcome
    /\ runners = NoRunners

\* main: json_str = json.dumps(indexer.index, indent=2) after index_all returned;
\* back is what json.loads makes of json_str
Dump ==
    LET out == json_dumps(index)
    IN  /\ last.op = "index_all"
        /\ last.exc = "none"
        /\ last' = [op |-> "json.dumps", exc |-> out.exc]
        /\ dumped' = [t |-> "called", text |-> out.val,
                      back |-> IF out.exc = "none" THEN json_loads(out.val) ELSE NotDumped]
        /\ UNCHANGED <<disk, index, stamp, prev, cur, edits, calls, loaded, repo, doctor, outcome, runners>>

NextDump ==
    \/ Construct
    \/ IndexAll
    \/ Dump

SpecDump == InitDump /\ [][NextDump]_vars

(***************************************************************************)
(* The doctor command: the repositories it is run on.                      *)
(***************************************************************************)
With(n, name, child) == Dir(Put(n.e, name, child))
Without(n, name) == Dir([x \in DOMAIN n.e \ {name} |-> n.e[x]])

TemplateDoc == PyDict("name" :> PyStr("base"))
TemplateDir == Dir("base.yaml" :> File(Doc(TemplateDoc)))
ConfigsValid ==
    Dir(("datasets" :> TemplateDir) @@ ("models" :> TemplateDir)
        @@ ("training" :> TemplateDir) @@ ("sweeps" :> TemplateDir))
ConfigsDefective ==
    Dir(("datasets" :> EmptyDir) @@ ("models" :> Dir("base.yaml" :> File(Garbled)))
        @@ ("training" :> Dir("base.yaml" :> File(Doc(SomeList)))) @@ ("sweeps" :> TemplateDir))
ConfigsUnreadable == With(ConfigsValid, "sweeps", Dir("base.yaml" :> EmptyDir))

\* the layout of TFC-0001, with nothing in datasets, runs and models
Frame ==
    Dir(("configs" :> ConfigsValid) @@ ("data" :> EmptyDir) @@ ("datasets" :> EmptyDir)
        @@ ("docs" :> EmptyDir)
        @@ ("environments" :> Dir("system.yaml" :> File(Doc(TemplateDoc))))
        @@ ("experiments" :> EmptyDir) @@ ("models" :> EmptyDir) @@ ("runs" :> EmptyDir)
        @@ ("scripts" :> EmptyDir) @@ ("src" :> EmptyDir) @@ ("spaces" :> EmptyDir)
        @@ ("tools" :> EmptyDir)
        @@ ("README.md" :> File(Text("# project"))) @@ (".gitignore" :> File(Blank))
        @@ (".gitattributes" :> File(Text("*.pt filter=lfs diff=lfs")))
        @@ (".lfsconfig" :> File(Blank)) @@ ("requirements.txt" :> File(Blank))
        @@ ("requirements-dev.txt" :> File(Blank)) @@ ("requirements-gpu.txt" :> File(Blank)))
FrameIncomplete ==
    With(With(Without(Without(Frame, "docs"), ".lfsconfig"), "scripts", File(Blank)),
         "environments", EmptyDir)
Frames ==
    {Frame, With(FrameIncomplete, "configs", ConfigsDefective),
     With(Frame, "configs", ConfigsUnreadable)}

DMetaValid ==
    PyDict(("name" :> PyStr("a")) @@ ("version" :> PyStr("v1"))
           @@ ("created_at" :> PyStr("2024-01-01")) @@ ("description" :> PyStr("d"))
           @@ ("source" :> PyStr("uci")) @@ ("hash" :> PyStr("abc")))
DMetaShort == PyDict(("name" :> PyStr("a")) @@ ("version" :> PyStr("1.0")))
DMetaIntVersion == PyDict([k \in DOMAIN DMetaValid.m |->
                              IF k = "version" THEN PyInt(1) ELSE DMetaValid.m[k]])
Splits == ("train" :> SplitDir(1)) @@ ("val" :> SplitDir(1)) @@ ("test" :> SplitDir(0))
DVValid == Dir(("metadata.yaml" :> File(Doc(DMetaValid))) @@ Splits)
DVNoSplits == Dir(("metadata.yaml" :> File(Doc(DMetaValid))) @@ ("train" :> SplitDir(1)))
DVShort == Dir(("metadata.yaml" :> File(Doc(DMetaShort))) @@ ("train" :> SplitDir(1)))
DVNoMeta == Dir(Splits)
DVGarbledMeta == Dir(("metadata.yaml" :> File(Garbled)) @@ Splits)
DVEmptyMeta == Dir(("metadata.yaml" :> File(Blank)) @@ Splits)
DVIntVersion == Dir(("metadata.yaml" :> File(Doc(DMetaIntVersion))) @@ Splits)

DoctorDatasetsTrees ==
    {Absent,
     Dir(("a" :> Dir("v1" :> DVValid)) @@ ("README.md" :> File(Text("# Datasets")))),
     Dir("a" :> Dir("v1" :> DVNoSplits)),
     Dir(("a" :> Dir(("v1" :> DVShort) @@ ("1.0" :> DVNoMeta)))
         @@ ("b" :> Dir("v1" :> DVGarbledMeta))),
     Dir(("a" :> Dir("v1" :> DVIntVersion)) @@ ("b" :> Dir("v1" :> DVEmptyMeta)))}

CfgValid ==
    PyDict(("run_id" :> PyStr("run-1")) @@ ("experiment" :> PyStr("exp"))
           @@ ("model" :> PyStr("resnet")) @@ ("dataset" :> PyStr("a/v1")))
RunValid ==
    Dir(("config.yaml" :> File(Doc(CfgValid))) @@ ("metrics.json" :> File(Doc(MetricsDoc)))
        @@ ("system.json" :> File(Doc(EmptyDict))) @@ ("log.txt" :> File(Text("started"))))
RunBadContent ==
    With(With(RunValid, "config.yaml", File(Doc(SomeList))), "metrics.json", File(Garbled))
RunBadMetrics ==
    With(With(RunValid, "config.yaml", File(Garbled)), "metrics.json", File(Doc(SomeList)))
RunEmptyConfig == With(RunValid, "config.yaml", File(Blank))

DoctorRunsTrees ==
    {Dir("run-1" :> RunValid),
     Dir(("run-1" :> RunValid) @@ ("run-2" :> Without(RunValid, "config.yaml"))
         @@ ("run-3" :> Without(RunValid, "metrics.json"))
         @@ ("run-4" :> Without(RunValid, "system.json"))
         @@ ("run-5" :> Without(RunValid, "log.txt")) @@ ("tmp" :> EmptyDir)),
     Dir(("run-1" :> RunBadContent) @@ ("run-2" :> RunBadMetrics)),
     Dir(("run-1" :> RunEmptyConfig) @@ ("run-3" :> Without(RunValid, "metrics.json")))}

MMetaValid ==
    PyDict(("name" :> PyStr("m")) @@ ("version" :> PyStr("v1"))
           @@ ("created_at" :> PyStr("2024-01-01")) @@ ("run_id" :> PyStr("run-1"))
           @@ ("dataset" :> PyDict("name" :> PyStr("a"))) @@ ("code" :> PyStr("c"))
           @@ ("framework" :> PyStr("torch")))
MVValid == MVFull(MMetaValid)

DoctorModelsTrees ==
    {Dir("m" :> Dir("v1" :> MVValid)),
     Dir("m" :> Dir("v1" :> EmptyDir)),
     Dir("m" :> Dir(("v1" :> MVFull(MetaNoRun)) @@ ("v2" :> MVValid))),
     Dir("m" :> Dir("v1" :> MVFull(SomeList)))}

\* what git lfs answers, .gitattributes, and a file above 1MB under data/
BigFile == File(Blob(LargeSize + 1))
LfsSetups ==
    {[lfs |-> TRUE, ga |-> File(Text("*.pt filter=lfs diff=lfs")), tracked |-> {"data/raw.csv"}],
     [lfs |-> TRUE, ga |-> File(Text("# no rules")), tracked |-> {}],
     [lfs |-> TRUE, ga |-> Absent, tracked |-> {}],
     [lfs |-> FALSE, ga |-> File(Text("*.pt filter=lfs diff=lfs")), tracked |-> {}]}

Repository(frame, runs, datasets, models, setup) ==
    LET r1 == With(With(With(frame, "runs", runs), "datasets", datasets), "models", models)
        r2 == With(r1, "data", Dir("raw.csv" :> BigFile))
        r3 == IF exists(setup.ga) THEN With(r2, ".gitattributes", setup.ga)
              ELSE Without(r2, ".gitattributes")
        r4 == IF exists(datasets) THEN r3 ELSE Without(r3, "datasets")
    IN  [root |-> IF exists(models) THEN r4 ELSE Without(r4, "models"),
         lfs |-> setup.lfs, tracked |-> setup.tracked]

DoctorRepos ==
    {Repository(f, r, ds, ms, g) :
        f \in Frames, r \in DoctorRunsTrees, ds \in DoctorDatasetsTrees,
        ms \in DoctorModelsTrees, g \in LfsSetups}

\* --tfc: absent, or an int
Targets == {PyNone} \cup {PyInt(n) : n \in {-1, 0, 1, 2, 3, 4, 5, 6}}

InitDoctor ==
    /\ disk = [datasets |-> Absent, runs |-> Absent, models |-> Absent]
    /\ index = NewIndex(0)
    /\ last = [op |-> "__init__", exc |-> "none"]
    /\ stamp = 0
    /\ prev = NoReturn
    /\ cur = NoReturn
    /\ edits = 0
    /\ calls = 0
    /\ loaded = NotLoaded
    /\ dumped = NotDumped
    /\ repo \in DoctorRepos
    /\ doctor \in {NewDoctor(strict) : strict \in BOOLEAN}
    /\ outcome = NoOutcome
    /\ runners = NoRunners

\* main: success = doctor.validate_all_tfc(target_tfc=tfc)
ValidateAll ==
    \E target \in Targets, ord \in Orders :
        LET run == validate_all_tfc(doctor, repo, target, ord)
        IN  /\ outcome.t = "none"
            /\ doctor' = run.d
            /\ outcome' = [t |-> "validated", target |-> target,
                           success |-> run.success, exc |-> run.exc, ran |-> run.ran,
                           seen |-> {run.seen[i] : i \in DOMAIN run.seen},
                           results |-> run.results]
            /\ UNCHANGED <<disk, index, last, stamp, prev, cur, edits, calls, loaded, dumped, repo, runners>>

\* main: sys.exit(doctor.exit_with_code(success))
ExitWithCode ==
    /\ outcome.t = "validated"
    /\ outcome.exc = "none"
    /\ outcome' = [t |-> "exited", target |-> outcome.target,
                   success |-> outcome.success, exc |-> "none", ran |-> outcome.ran,
                   seen |-> outcome.seen, results |-> outcome.results,
                   code |-> exit_with_code(doctor, outcome.success)]
    /\ UNCHANGED <<disk, index, last, stamp, prev, cur, edits, calls, loaded, dumped, repo, doctor, runners>>

NextDoctor == ValidateAll \/ ExitWithCode

SpecDoctor == InitDoctor /\ [][NextDoctor]_vars

(***************************************************************************)
(* What is on disk, read off the tree without scanning it.                 *)
(***************************************************************************)
\* the directories among the entries of a directory
SubDirs(n) == IF is_dir(n) THEN {x \in DOMAIN n.e : is_dir(n.e[x])} ELSE {}
DiskNames(cat) == {x \in SubDirs(cat) : x # "README.md"}
DiskVersions(cat) ==
    UNION {{<<x, v>> : v \in {w \in SubDirs(cat.e[x]) : startswith(w, "v")}} :
              x \in DiskNames(cat)}
DiskRuns == {x \in SubDirs(disk.runs) : startswith(x, "run-")}

\* the last call was one of ops and returned normally; the indexer has not been
\* replaced since
Returned(ops) == last.op \in ops /\ last.exc = "none"
\* the tree is as it was at that call, an edit being the last event otherwise
Settled(ops) == Returned(ops)

Declares(doc, key) == doc.t = "map" /\ key \in DOMAIN doc.m

(***************************************************************************)
(* The loaders.                                                            *)
(***************************************************************************)
\* the file exists and its content is no document of the format
FailsToParse(fmt, n) ==
    /\ is_file(n)
    /\ \/ n.c.k \in {"garbled", "binary"}
       \/ fmt = "json" /\ n.c.k = "blank"

\* C1: whatever the path holds, a loader returns to its caller without raising,
\* and it returns the empty document when the file does not exist and when the
\* file exists but does not parse under the format.
C1_LoaderNeverRaises ==
    loaded.t = "called" =>
        /\ loaded.out.exc = "none"
        /\ (~exists(loaded.node) \/ FailsToParse(loaded.fmt, loaded.node))
              => loaded.out.val = EmptyDict

(***************************************************************************)
(* Scanning.                                                               *)
(***************************************************************************)
\* C2: index_all completes without raising whatever the tree holds, and the
\* index it leaves has an entry for every artifact directory that exists.
C2_IndexAllNeverRaises ==
    last.op = "index_all" =>
        /\ last.exc = "none"
        /\ last.exc = "none" =>
              /\ DiskNames(disk.datasets) \subseteq DOMAIN index.datasets
              /\ DiskRuns \subseteq DOMAIN index.runs
              /\ DiskNames(disk.models) \subseteq DOMAIN index.models

\* C3: the index has its five keys in every state, and after a scan of a
\* category whose directory is absent the category's mapping is empty.
C3_AbsentCategoryIsEmpty ==
    /\ DOMAIN index = {"datasets", "runs", "models", "lineage", "metadata"}
    /\ (Settled({"index_datasets", "index_all"}) /\ ~exists(disk.datasets))
          => index.datasets = EmptyFn
    /\ (Settled({"index_runs", "index_all"}) /\ ~exists(disk.runs))
          => index.runs = EmptyFn
    /\ (Settled({"index_models", "index_all"}) /\ ~exists(disk.models))
          => index.models = EmptyFn

\* C4: after a scan of the datasets, every dataset version of the index has in
\* sample_counts exactly the splits whose directory exists in the version
\* directory, each with the number of entries of that directory.
C4_SampleCountsMatchSplits ==
    Settled({"index_datasets", "index_all"}) =>
        \A p \in Versions(index.datasets) :
            \A i \in DOMAIN SplitNames :
                LET split == Child(Child(Child(disk.datasets, p[1]), p[2]), SplitNames[i])
                    counts == index.datasets[p[1]][p[2]].sample_counts
                IN  /\ SplitNames[i] \in DOMAIN counts <=> is_dir(split)
                    /\ SplitNames[i] \in DOMAIN counts
                          => counts[SplitNames[i]] = Cardinality(DOMAIN split.e)

(***************************************************************************)
(* Lineage.                                                                *)
(***************************************************************************)
\* C5: after build_lineage, a model version whose metadata declares a non-empty
\* run_id R has under "{model_name}/{version}" a record of type model with
\* run_id R; one that declares none, or an empty one, has no model record there.
C5_ModelLineage ==
    Returned({"build_lineage", "index_all"}) =>
        \A p \in Versions(index.models) :
            LET md == ModelMeta(index, p)
                k == EntityId(p)
            IN  IF Declares(md, "run_id") /\ Truthy(md.m["run_id"])
                THEN /\ k \in DOMAIN index.lineage
                     /\ index.lineage[k].type = "model"
                     /\ index.lineage[k].run_id = md.m["run_id"]
                ELSE ~(k \in DOMAIN index.lineage /\ index.lineage[k].type = "model")

\* the runs of the index whose config declares both a model and a dataset
DeclaringRuns ==
    {r \in DOMAIN index.runs :
        Declares(index.runs[r].config, "model") /\ Declares(index.runs[r].config, "dataset")}
ExperimentOf(config) ==
    IF "experiment" \in DOMAIN config.m THEN config.m["experiment"] ELSE EmptyStr

\* C6 as stated: after build_lineage, the record of a run whose config declares
\* model=M and dataset=D has type run, model M, dataset D and the config's
\* experiment (empty when absent).
C6_RunLineageAsStated ==
    Returned({"build_lineage", "index_all"}) =>
        \A r \in DeclaringRuns :
            LET config == index.runs[r].config
            IN  /\ r \in DOMAIN index.lineage
                /\ index.lineage[r].type = "run"
                /\ index.lineage[r].model = config.m["model"]
                /\ index.lineage[r].dataset = config.m["dataset"]
                /\ index.lineage[r].experiment = ExperimentOf(config)

\* what the record holds for a declared value: the value when it is a string,
\* the text Python prints for it otherwise
Rendered(v) == IF v.t = "str" THEN v ELSE PyStr(Repr(v))

\* C6 (amended): after build_lineage, the record of a run whose config declares
\* model=M and dataset=D has type run, model and dataset equal to M and D when
\* these are strings and to their printed text otherwise, and the config's
\* experiment unconverted (the empty string when absent).
C6_RunLineage ==
    Returned({"build_lineage", "index_all"}) =>
        \A r \in DeclaringRuns :
            LET config == index.runs[r].config
            IN  /\ r \in DOMAIN index.lineage
                /\ index.lineage[r].type = "run"
                /\ index.lineage[r].model = Rendered(config.m["model"])
                /\ index.lineage[r].dataset = Rendered(config.m["dataset"])
                /\ index.lineage[r].experiment = ExperimentOf(config)

\* a lineage was built over a run declaring strings and a run declaring others
C6_Witness ==
    /\ Returned({"build_lineage", "index_all"})
    /\ \E r \in DeclaringRuns : index.runs[r].config.m["model"].t = "str"
    /\ \E r \in DeclaringRuns :
          /\ index.runs[r].config.m["model"].t # "str"
          /\ "experiment" \notin DOMAIN index.runs[r].config.m
          /\ r \in DOMAIN index.lineage

FieldOr(doc, key, default) == IF key \in DOMAIN doc.m THEN doc.m[key] ELSE default

\* C7: after build_lineage, every dataset version of the index has under
\* "{dataset_name}/{version}" a record of type dataset whose derived_from and
\* source are the metadata's fields of those names, empty when it lacks them.
C7_DatasetLineage ==
    Returned({"build_lineage", "index_all"}) =>
        \A p \in Versions(index.datasets) :
            LET md == DatasetMeta(index, p)
                k == EntityId(p)
            IN  /\ k \in DOMAIN index.lineage
                /\ index.lineage[k].type = "dataset"
                /\ index.lineage[k].derived_from = FieldOr(md, "derived_from", EmptyDict)
                /\ index.lineage[k].source = FieldOr(md, "source", EmptyDict)

\* a lineage was built over a dataset version that declares a source and shares
\* its id with a model version that declares a run
C7_Witness ==
    /\ Returned({"build_lineage", "index_all"})
    /\ \E p \in Versions(index.datasets) :
          /\ Declares(DatasetMeta(index, p), "source")
          /\ ~Declares(DatasetMeta(index, p), "derived_from")
          /\ p \in ModelLinked(index)

(***************************************************************************)
(* Rebuilding and determinism.                                             *)
(***************************************************************************)
\* the lineage ids of the artifacts on disk
DiskIds ==
    DiskRuns \cup {EntityId(p) : p \in DiskVersions(disk.models)}
             \cup {EntityId(p) : p \in DiskVersions(disk.datasets)}

\* C8: what index_all returns holds exactly the artifacts on disk at that call,
\* whatever the indexer indexed in earlier calls.
C8_IndexReflectsSnapshot ==
    Settled({"index_all"}) =>
        /\ DOMAIN index.datasets = DiskNames(disk.datasets)
        /\ Versions(index.datasets) = DiskVersions(disk.datasets)
        /\ DOMAIN index.runs = DiskRuns
        /\ DOMAIN index.models = DiskNames(disk.models)
        /\ Versions(index.models) = DiskVersions(disk.models)
        /\ DOMAIN index.lineage \subseteq DiskIds

\* C9: when index_all returns, the lineage it leaves is the lineage it leaves
\* under every other order of the directory listings, from the same indexer
\* and the same tree.
C9_LineageOrderIndependent ==
    [][(last'.op = "index_all" /\ calls' = calls + 1 /\ last'.exc = "none")
          => \A o \in Orders :
                 /\ index_all(index, disk, o).exc = "none"
                 /\ index_all(index, disk, o).index.lineage = index'.lineage]_vars

\* index_all returned a lineage over two datasets and two runs
C9_Witness ==
    /\ Settled({"index_all"})
    /\ Cardinality(DiskNames(disk.datasets)) = 2
    /\ Cardinality(DiskRuns) = 2
    /\ Cardinality(DOMAIN index.lineage) >= 4

\* two indexers were constructed and index_all returned on each, the tree
\* unchanged in between
PipelineTwice ==
    /\ prev.t = "ret" /\ cur.t = "ret"
    /\ prev.fresh /\ cur.fresh

\* C10 as stated: the two returned indexes are equal.
C10_PipelineTwiceEqual == PipelineTwice => prev.index = cur.index

Elements(s) == {s[i] : i \in DOMAIN s}
SameModelVersion(x, y) ==
    /\ x.metadata = y.metadata
    /\ x.metrics = y.metrics
    /\ x.card_preview = y.card_preview
    /\ x.path = y.path
    /\ Len(x.model_files) = Len(y.model_files)
    /\ Elements(x.model_files) = Elements(y.model_files)
SameModels(x, y) ==
    /\ DOMAIN x = DOMAIN y
    /\ \A n \in DOMAIN x :
          /\ DOMAIN x[n] = DOMAIN y[n]
          /\ \A v \in DOMAIN x[n] : SameModelVersion(x[n][v], y[n][v])

\* C10 (amended): the two returned indexes have equal datasets, runs and lineage
\* mappings, the same project_root, and models mappings equal up to the order of
\* each model_files list; indexed_at is the time each indexer was constructed.
C10_PipelineTwiceSame ==
    PipelineTwice =>
        /\ prev.index.datasets = cur.index.datasets
        /\ prev.index.runs = cur.index.runs
        /\ prev.index.lineage = cur.index.lineage
        /\ prev.index.metadata.project_root = cur.index.metadata.project_root
        /\ SameModels(prev.index.models, cur.index.models)

\* both pipelines returned an index of two runs and a model version with files,
\* constructed at different times
C10_Witness ==
    /\ PipelineTwice
    /\ prev.index.metadata.indexed_at # cur.index.metadata.indexed_at
    /\ Cardinality(DOMAIN cur.index.runs) = 2
    /\ \E p \in Versions(cur.index.models) :
          Len(cur.index.models[p[1]][p[2]].model_files) = 2

(***************************************************************************)
(* Serialization of the index.                                             *)
(***************************************************************************)
\* C11: json.dumps of an index that index_all produced succeeds, and parsing
\* its result back gives a structure equal to the index.
C11_DumpRoundTrips ==
    last.op = "json.dumps" => (last.exc = "none" /\ dumped.back = index)

(***************************************************************************)
(* The doctor: invocations.                                                *)
(***************************************************************************)
\* validate_all_tfc has been called
Invoked == outcome.t \in {"validated", "exited"}
\* ... with no rule id, or with one that counts as none
AllRules == Invoked /\ ~Truthy(outcome.target)
\* ... with the id of rule k
Targeted(k) == Invoked /\ outcome.target = PyInt(k)

\* C12: for an integer id outside 1..5, validate_all_tfc returns False, has
\* appended exactly one error, which names the id, and has executed no rule.
C12_UnknownIdRejected ==
    (Invoked /\ outcome.target.t = "int" /\ outcome.target.n \notin 1..5) =>
        /\ outcome.exc = "none"
        /\ ~outcome.success
        /\ doctor.errors = <<"Unknown TFC number: " \o IntText(outcome.target.n)>>
        /\ outcome.ran = << >>

\* C13: the exit code of an invocation is 2 whenever an error was recorded, and
\* whenever a warning was recorded under strict mode.
C13_HardFailure ==
    (outcome.t = "exited"
        /\ (doctor.errors # << >> \/ (doctor.strict /\ doctor.warnings # << >>)))
        => outcome.code = 2

\* C14: in non-strict mode with no error recorded, the exit code is 1 when a
\* warning was recorded and 0 when none was.
C14_DegradedOrSuccess ==
    (outcome.t = "exited" /\ ~doctor.strict /\ doctor.errors = << >>) =>
        outcome.code = (IF doctor.warnings # << >> THEN 1 ELSE 0)

\* C15: an all-rules invocation executes each of the six rules exactly once,
\* in whatever state the workspace is.
C15_EveryRuleRuns ==
    AllRules => (outcome.exc = "none" /\ outcome.ran = RuleNames)

\* every one of the six rules returned, and returned True
EachRuleTrue ==
    \A i \in DOMAIN RuleNames :
        RuleNames[i] \in DOMAIN outcome.results /\ outcome.results[RuleNames[i]]

\* C16: an all-rules invocation returns True if and only if each of the six
\* rules returned True, and what it returns is the conjunction of what the
\* rules returned.
C16_AllIsConjunction ==
    AllRules =>
        /\ (outcome.exc = "none" /\ outcome.success) <=> EachRuleTrue
        /\ outcome.exc = "none" =>
              /\ DOMAIN outcome.results = {RuleNames[i] : i \in DOMAIN RuleNames}
              /\ outcome.success = (\A r \in DOMAIN outcome.results : outcome.results[r])

\* an all-rules invocation returned False with some rules True and others False
C16_Witness ==
    /\ AllRules
    /\ outcome.exc = "none"
    /\ ~outcome.success
    /\ \E r \in DOMAIN outcome.results : outcome.results[r]
    /\ Cardinality({r \in DOMAIN outcome.results : ~outcome.results[r]}) >= 2

\* rule k alone, on a doctor d
Rule(k, d, rp, ord) ==
    CASE k = 1 -> validate_tfc_0001_layout(d, rp.root)
      [] k = 2 -> validate_tfc_0002_schemas(d, rp.root)
      [] k = 3 -> validate_tfc_0003_runs(d, rp.root, ord)
      [] k = 4 -> validate_tfc_0004_datasets(d, rp.root, ord)
      [] k = 5 -> validate_tfc_0005_models(d, rp.root, ord)
ResultKey(k) == "tfc_000" \o NatText(k)

\* C17: validate_all_tfc with the id k of a rule executes rule k only: what it
\* returns, the errors and the warnings are those of rule k alone, and
\* validation_results has no key but tfc_000k.
C17_TargetRunsOnlyRule ==
    \A k \in 1..5 :
        Targeted(k) =>
            /\ outcome.ran = <<RuleNames[k]>>
            /\ DOMAIN doctor.validation_results \subseteq {ResultKey(k)}
            /\ \E ord \in Orders :
                  LET st == Rule(k, NewDoctor(doctor.strict), repo, ord)
                  IN  /\ st.exc = outcome.exc
                      /\ st.d.errors = doctor.errors
                      /\ st.d.warnings = doctor.warnings
                      /\ st.exc = "none" => outcome.success = st.ok

\* the runs rule alone returned False on a repository whose layout and
\* datasets are defective too
C17_Witness ==
    /\ Targeted(3)
    /\ outcome.exc = "none"
    /\ ~outcome.success
    /\ DOMAIN doctor.validation_results = {"tfc_0003"}
    /\ ~exists(Child(repo.root, "docs"))
    /\ ~exists(Resolve(repo.root, <<"datasets", "a", "1.0", "metadata.yaml">>))

\* C18: no exception leaves validate_all_tfc out of the runs, datasets or
\* models rule, whatever the artifact directories hold.
C18_NoArtifactException ==
    (Invoked /\ outcome.exc # "none") =>
        outcome.ran[Len(outcome.ran)] \notin {"runs", "datasets", "models"}

(***************************************************************************)
(* The doctor: the run and dataset rules.                                  *)
(***************************************************************************)
Names(seq) == {seq[i] : i \in DOMAIN seq}
RunFileNames == {RunRequiredFiles[i][1] : i \in DOMAIN RunRequiredFiles}
\* the run directories of the repository
RepoRuns == {x \in SubDirs(Child(repo.root, "runs")) : startswith(x, "run-")}
RepoRun(x) == Resolve(repo.root, <<"runs", x>>)
MissingFiles(rdir) == {f \in RunFileNames : ~exists(Child(rdir, f))}
\* the file is a well-formed document that denotes a mapping with the fields
HoldsFields(n, fields) ==
    /\ is_file(n)
    /\ n.c.k = "doc"
    /\ n.c.v.t = "map"
    /\ fields \subseteq DOMAIN n.c.v.m
\* what the run directory holds is valid as far as it goes
RunContentValid(rdir) ==
    /\ exists(Child(rdir, "config.yaml"))
          => HoldsFields(Child(rdir, "config.yaml"), Names(RunRequiredFields))
    /\ exists(Child(rdir, "metrics.json")) => HoldsFields(Child(rdir, "metrics.json"), {})
MissesOne(rdir) == Cardinality(MissingFiles(rdir)) = 1 /\ RunContentValid(rdir)
ErrorsAbout(kind, x) ==
    SelectSeq(doctor.errors, LAMBDA e : startswith(e, kind \o " " \o x \o " "))

\* C19: when the runs rule is run, alone or among all rules, every run
\* directory that misses exactly one required file and is otherwise valid has
\* exactly one error, which says "missing" and names the file, and the rule
\* and the invocation return False.
C19_MissingFileOneError ==
    (Targeted(3) \/ AllRules) =>
        \A x \in {y \in RepoRuns : MissesOne(RepoRun(y))} :
            /\ outcome.exc = "none"
            /\ ~outcome.success
            /\ "runs" \in DOMAIN outcome.results
            /\ ~outcome.results["runs"]
            /\ Len(ErrorsAbout("Run", x)) = 1
            /\ IsSubstring("missing", ErrorsAbout("Run", x)[1])
            /\ \E f \in MissingFiles(RepoRun(x)) : IsSubstring(f, ErrorsAbout("Run", x)[1])

\* the version directories of the datasets of the repository
RepoDatasetVersions ==
    LET ds == Child(repo.root, "datasets")
    IN  UNION {{<<x, v>> : v \in SubDirs(ds.e[x])} : x \in DiskNames(ds)}
RepoDatasetVersion(p) == Resolve(repo.root, <<"datasets", p[1], p[2]>>)
\* the version has no metadata.yaml, or no metadata with every required field
\* and a version that starts with "v"
Violates(vdir) ==
    LET n == Child(vdir, "metadata.yaml")
    IN  \/ ~HoldsFields(n, Names(DatasetRequiredFields))
        \/ n.c.v.m["version"].t # "str"
        \/ ~startswith(n.c.v.m["version"].s, "v")
AbsentSplits ==
    {q \in RepoDatasetVersions \X Names(SplitNames) :
        ~exists(Child(RepoDatasetVersion(q[1]), q[2]))}

\* C20: the datasets rule returns False exactly when some dataset version
\* violates the metadata requirements, with an error recorded for it; the
\* warnings are one for each absent split directory and do not change what
\* the rule returns.
C20_DatasetsRule ==
    Targeted(4) =>
        /\ outcome.exc = "none"
        /\ outcome.success <=> ~(\E p \in RepoDatasetVersions : Violates(RepoDatasetVersion(p)))
        /\ ~outcome.success => doctor.errors # << >>
        /\ Len(doctor.warnings) = Cardinality(AbsentSplits)

(***************************************************************************)
(* The doctor: the models rule.                                            *)
(***************************************************************************)
\* the version directories of the models of the repository
RepoModelVersions ==
    LET ms == Child(repo.root, "models")
    IN  UNION {{<<x, v>> : v \in SubDirs(ms.e[x])} : x \in DiskNames(ms)}
RepoModelVersion(p) == Resolve(repo.root, <<"models", p[1], p[2]>>)
\* metadata.yaml is there, and is no mapping with every required field and a
\* version that starts with "v"
ModelViolates(vdir) ==
    LET n == Child(vdir, "metadata.yaml")
    IN  /\ exists(n)
        /\ \/ ~HoldsFields(n, Names(ModelRequiredFields))
           \/ n.c.v.m["version"].t # "str"
           \/ ~startswith(n.c.v.m["version"].s, "v")
AbsentModelFiles ==
    {q \in RepoModelVersions \X {ModelRequiredFiles[i][1] : i \in DOMAIN ModelRequiredFiles} :
        ~exists(Child(RepoModelVersion(q[1]), q[2]))}
WithoutArtifact ==
    {p \in RepoModelVersions :
        ~\E x \in DOMAIN RepoModelVersion(p).e :
            is_file(RepoModelVersion(p).e[x]) /\ suffix(x) \in ModelSuffixes}

\* C21: the models rule records one warning for each absent supplementary
\* file and one for each version without a recognized artifact file, none of
\* which changes what it returns; it returns False exactly when some version
\* has a metadata.yaml that lacks a required field or whose version does not
\* start with "v".
C21_ModelsRule ==
    Targeted(5) =>
        /\ outcome.exc = "none"
        /\ outcome.success <=> ~(\E p \in RepoModelVersions : ModelViolates(RepoModelVersion(p)))
        /\ Len(doctor.warnings) = Cardinality(AbsentModelFiles) + Cardinality(WithoutArtifact)

(***************************************************************************)
(* The doctor: the git lfs rule.                                           *)
(***************************************************************************)
\* the five rules that an all-rules invocation runs before the git lfs rule,
\* on a doctor just constructed
BeforeGitLfs(ord) ==
    LET run == [d |-> NewDoctor(doctor.strict), success |-> TRUE, exc |-> "none",
                ran |-> << >>, seen |-> << >>, results |-> [k \in {} |-> TRUE]]
        r1 == Step(run, "layout", Rule(1, run.d, repo, ord))
        r2 == Step(r1, "schemas", Rule(2, r1.d, repo, ord))
        r3 == Step(r2, "runs", Rule(3, r2.d, repo, ord))
        r4 == Step(r3, "datasets", Rule(4, r3.d, repo, ord))
    IN  Step(r4, "models", Rule(5, r4.d, repo, ord))
\* the git lfs rule was entered with git lfs absent
LfsAbsent == AllRules /\ ~repo.lfs /\ "git_lfs" \in Names(outcome.ran)

\* C22: when git lfs is absent, the git lfs rule raises nothing: it returns
\* False and appends exactly one error, about the missing dependency; the
\* errors, warnings and results of the other rules of the invocation are what
\* they are without it.
C22_LfsAbsentIsAnError ==
    LfsAbsent =>
        /\ outcome.exc = "none"
        /\ "git_lfs" \in DOMAIN outcome.results
        /\ ~outcome.results["git_lfs"]
        /\ \E ord \in Orders :
              LET r == BeforeGitLfs(ord)
              IN  /\ doctor.errors
                        = r.d.errors \o <<"Git LFS is not installed or not configured">>
                  /\ doctor.warnings = r.d.warnings
                  /\ doctor.validation_results = r.d.validation_results
                  /\ \A k \in DOMAIN r.results : outcome.results[k] = r.results[k]

\* git lfs is absent in a repository where other rules record errors and
\* warnings, and a file above 1MB is tracked by nothing
C22_Witness ==
    /\ LfsAbsent
    /\ outcome.exc = "none"
    /\ Len(doctor.errors) > 1
    /\ doctor.warnings # << >>
    /\ \E k \in DOMAIN outcome.results : k # "git_lfs" /\ outcome.results[k]
    /\ repo.tracked = {}
    /\ st_size(Resolve(repo.root, <<"data", "raw.csv">>)) > LargeSize

(***************************************************************************)
(* The indexer: key sets.                                                  *)
(***************************************************************************)
\* C23: after a scan of a category, the keys of its mapping are exactly the
\* directories of the category directory on disk (for runs, those named
\* run-...), and the version keys of datasets and models exactly their
\* subdirectories named v....
C23_KeysAreDirectories ==
    /\ Returned({"index_datasets", "index_all"}) =>
          /\ DOMAIN index.datasets = DiskNames(disk.datasets)
          /\ Versions(index.datasets) = DiskVersions(disk.datasets)
    /\ Returned({"index_runs", "index_all"}) => DOMAIN index.runs = DiskRuns
    /\ Returned({"index_models", "index_all"}) =>
          /\ DOMAIN index.models = DiskNames(disk.models)
          /\ Versions(index.models) = DiskVersions(disk.models)

(***************************************************************************)
(* Previews: workspaces whose logs and cards are as long as the previews   *)
(* and longer, with a character of two bytes at the cut.                   *)
(***************************************************************************)
RECURSIVE Repeat(_, _)
Repeat(s, n) == IF n = 0 THEN "" ELSE s \o Repeat(s, n - 1)
\* limit - 1 characters of one byte, a character of two bytes, and more text
LongText(limit) == Prefix(Repeat("0123456789", limit \div 10), limit - 1) \o "é" \o "tail"

RunLogged(text) == Dir(Put(RunFull.e, "log.txt", File(Text(text))))
RunUnlogged == Dir([x \in DOMAIN RunFull.e \ {"log.txt"} |-> RunFull.e[x]])
PreviewRunsTrees ==
    {Dir(("run-1" :> RunLogged(LongText(LogPreviewLen))) @@ ("run-2" :> RunUnlogged)),
     Dir(("run-1" :> RunLogged(Prefix(LongText(LogPreviewLen), LogPreviewLen)))
         @@ ("run-2" :> RunOdd)),
     RunsPair}

MVCarded(text) == Dir(Put(MVFull(MetaModel).e, "card.md", File(Text(text))))
PreviewModelsTrees ==
    {Dir("m" :> Dir(("v1" :> MVCarded(LongText(CardPreviewLen)))
                    @@ ("v2" :> MVBare(MetaNoRun)))),
     Dir("m" :> Dir("v1" :> MVCarded(Prefix(LongText(CardPreviewLen), CardPreviewLen - 1)))),
     ModelsPair}

PreviewWorkspaces ==
    [datasets : {Absent}, runs : PreviewRunsTrees, models : PreviewModelsTrees]

InitPreview ==
    /\ disk \in PreviewWorkspaces
    /\ index = NewIndex(0)
    /\ last = [op |-> "__init__", exc |-> "none"]
    /\ stamp = 0
    /\ prev = NoReturn
    /\ cur = NoReturn
    /\ edits = 0
    /\ calls = 0
    /\ loaded = NotLoaded
    /\ dumped = NotDumped
    /\ repo = NoRepo
    /\ doctor = NoDoctor
    /\ outcome = NoOutcome
    /\ runners = NoRunners

NextPreview ==
    \/ Construct
    \/ IndexRuns
    \/ IndexModels
    \/ IndexAll
    \/ EditRuns
    \/ EditModels

SpecPreview == InitPreview /\ [][NextPreview]_vars

\* the text of a file, "" for a file that is absent or holds no text
TextOf(n) == IF is_file(n) /\ n.c.k = "text" THEN n.c.s ELSE ""
IsPrefix(p, s) == Len(p) <= Len(s) /\ SubSeq(s, 1, Len(p)) = p
\* p is s cut to limit characters
Truncated(p, s, limit) ==
    /\ IsPrefix(p, s)
    /\ Len(p) <= limit
    /\ Len(s) >= limit => Len(p) = limit
    /\ s = "" => p = ""
LogOf(r) == Child(Child(disk.runs, r), "log.txt")
CardOf(p) == Child(Child(Child(disk.models, p[1]), p[2]), "card.md")

\* C24: after a scan, the log_preview of every run of the index is the text
\* of the run's log file cut to at most 500 characters, and the card_preview of
\* every model version the text of its card cut to at most 1000 characters;
\* the cut counts characters, and an absent log or card gives "".
C24_PreviewsArePrefixes ==
    /\ Returned({"index_runs", "index_all"}) =>
          \A r \in DOMAIN index.runs :
              Truncated(index.runs[r].log_preview, TextOf(LogOf(r)), LogPreviewLen)
    /\ Returned({"index_models", "index_all"}) =>
          \A p \in Versions(index.models) :
              Truncated(index.models[p[1]][p[2]].card_preview, TextOf(CardOf(p)),
                        CardPreviewLen)

(***************************************************************************)
(* Lineage ids.                                                            *)
(***************************************************************************)
\* C26: after build_lineage the lineage has one record for each run of the
\* index, one for each model version with a non-empty run_id and one for each
\* dataset version: no record has been replaced by that of another entity.
C26_LineageIdsDistinct ==
    Returned({"build_lineage", "index_all"}) =>
        Cardinality(DOMAIN index.lineage)
            = Cardinality(DOMAIN index.runs) + Cardinality(ModelLinked(index))
              + Cardinality(Versions(index.datasets))

(***************************************************************************)
(* The doctor: validation_results and the accumulators.                    *)
(***************************************************************************)
\* C27: when validate_all_tfc returns, validation_results has an entry for
\* every rule the invocation executed, and what is returned is the conjunction
\* of the values of validation_results.
C27_ResultsCoverRules ==
    (Invoked /\ outcome.exc = "none") =>
        /\ Cardinality(DOMAIN doctor.validation_results) = Len(outcome.ran)
        /\ outcome.success
              = (\A k \in DOMAIN doctor.validation_results : doctor.validation_results[k])

RepoDisk ==
    [datasets |-> Child(repo.root, "datasets"), runs |-> Child(repo.root, "runs"),
     models |-> Child(repo.root, "models")]
\* the versions a scan by a new indexer records, as paths
Recorded(cat, scan) ==
    {cat \o "/" \o EntityId(p) : p \in Versions(scan.index[cat])}

\* C29: the version directories that the datasets rule and the models rule
\* validate are exactly those that index_datasets and index_models record as
\* versions on the same tree.
C29_SameVersionsCovered ==
    /\ (Targeted(4) /\ outcome.exc = "none") =>
          \A ord \in Orders :
              LET scan == index_datasets(NewIndex(0), RepoDisk, ord)
              IN  scan.exc = "none" => outcome.seen = Recorded("datasets", scan)
    /\ (Targeted(5) /\ outcome.exc = "none") =>
          \A ord \in Orders :
              LET scan == index_models(NewIndex(0), RepoDisk, ord)
              IN  scan.exc = "none" => outcome.seen = Recorded("models", scan)

(***************************************************************************)
(* init (tools/init.py).  The command threads st = [root, exc, removed]:   *)
(* the tree of project_root as changed so far, the exception that ended    *)
(* the command ("none": none), and removed_items.                          *)
(***************************************************************************)
\* shutil.rmtree(path): a path that is no directory cannot be removed by it
rmtree(st, name) ==
    IF ~is_dir(Child(st.root, name)) THEN [st EXCEPT !.exc = "NotADirectoryError"]
    ELSE [st EXCEPT !.root = Without(@, name), !.removed = Append(@, name)]

\* dirs_to_clean without data
DirsToClean_without_data == <<"datasets", "models", "runs">>
DirsToClean == <<"data", "datasets", "models", "runs">>
EssentialDirs == <<"datasets", "models", "runs", "data">>

\* for dir_name in dirs_to_clean: if dir_path.exists(): shutil.rmtree(dir_path)
RECURSIVE RemoveExamples(_, _)
RemoveExamples(st, dirs) ==
    IF dirs = << >> \/ st.exc # "none" THEN st
    ELSE RemoveExamples(IF exists(Child(st.root, Head(dirs))) THEN rmtree(st, Head(dirs)) ELSE st,
                        Tail(dirs))

\* under --keep-examples: the directories of runs/ not named run-... are removed
KeepExampleRuns(st) ==
    LET runs == Child(st.root, "runs")
        gone == {x \in SubDirs(runs) : ~startswith(x, "run-")}
    IN  IF ~exists(runs) THEN st
        ELSE IF ~is_dir(runs) THEN [st EXCEPT !.exc = "NotADirectoryError"]
        ELSE [st EXCEPT !.root = With(@, "runs", Dir([x \in DOMAIN runs.e \ gone |-> runs.e[x]])),
                        !.removed = @ \o [i \in 1..Cardinality(gone) |-> "runs/"]]

\* the names "**/__pycache__", "**/*.pyc" and "**/*.pyo" match at any depth
IsCache(x) == x = "__pycache__" \/ endswith(x, ".pyc") \/ endswith(x, ".pyo")
RECURSIVE Sweep(_)
Sweep(n) ==
    IF ~is_dir(n) THEN n
    ELSE Dir([x \in {y \in DOMAIN n.e : ~IsCache(y)} |-> Sweep(n.e[x])])
\* the loop over patterns_to_remove
RemoveCaches(st) ==
    LET swept == Sweep(st.root)
    IN  [st EXCEPT !.root = Dir([x \in DOMAIN swept.e \ {".pytest_cache", ".coverage", "htmlcov"}
                                    |-> swept.e[x]])]

ModelExtensions == {".pkl", ".pth", ".pt", ".h5", ".hdf5"}
\* the loop over model_extensions: files of project_root itself
RemoveModelFiles(st) ==
    [st EXCEPT !.root =
        Dir([x \in {y \in DOMAIN @.e :
                       ~(is_file(@.e[y]) /\ \E ext \in ModelExtensions : endswith(y, ext))}
                |-> @.e[x]])]

\* dir_name.title()
Title(name) ==
    CASE name = "datasets" -> "Datasets"
      [] name = "models" -> "Models"
      [] name = "runs" -> "Runs"
      [] name = "data" -> "Data"
ReadmeContent(name) ==
    "# " \o Title(name) \o "\n\nThis directory is ready for your " \o name \o ".\n"

\* dir_path.mkdir(exist_ok=True); README.md written unless it exists
RECURSIVE Recreate(_, _)
Recreate(st, dirs) ==
    IF dirs = << >> \/ st.exc # "none" THEN st
    ELSE LET n == Child(st.root, Head(dirs))
             made == IF exists(n) THEN n ELSE EmptyDir
         IN  Recreate(
                 IF is_file(n) THEN [st EXCEPT !.exc = "FileExistsError"]
                 ELSE IF exists(Child(made, "README.md"))
                 THEN [st EXCEPT !.root = With(@, Head(dirs), made)]
                 ELSE [st EXCEPT !.root = With(@, Head(dirs),
                                               With(made, "README.md",
                                                    File(Text(ReadmeContent(Head(dirs))))))],
                 Tail(dirs))

init(root, keep_examples) ==
    LET st0 == [root |-> root, exc |-> "none", removed |-> << >>]
        st1 == IF keep_examples THEN KeepExampleRuns(st0) ELSE RemoveExamples(st0, DirsToClean)
    IN  IF st1.exc # "none" THEN st1
        ELSE Recreate(RemoveModelFiles(RemoveCaches(st1)), EssentialDirs)

\* the project roots init is run on: each of the four directories absent,
\* empty, in use, or a file of that name
InUse ==
    Dir(("README.md" :> File(Text("# mine"))) @@ ("a" :> Dir("v1" :> EmptyDir))
        @@ ("run-1" :> Dir("log.txt" :> File(Text("started")))) @@ ("tmp" :> EmptyDir)
        @@ ("__pycache__" :> EmptyDir))
DirStates == {Absent, EmptyDir, InUse, File(Blank)}
Grounds ==
    Dir(("README.md" :> File(Text("# project"))) @@ ("w.pt" :> File(Blob(3)))
        @@ (".pytest_cache" :> EmptyDir)
        @@ ("src" :> Dir(("m.py" :> File(Blank))
                         @@ ("__pycache__" :> Dir("m.pyc" :> File(Binary))))))
Laid(f) ==
    Dir([x \in DOMAIN Grounds.e \cup {y \in DOMAIN f : exists(f[y])} |->
            IF x \in DOMAIN f THEN f[x] ELSE Grounds.e[x]])
ProjectRoots == {Laid(f) : f \in [{"data", "datasets", "models", "runs"} -> DirStates]}

InitInit ==
    /\ disk = [datasets |-> Absent, runs |-> Absent, models |-> Absent]
    /\ index = NewIndex(0)
    /\ last = [op |-> "__init__", exc |-> "none"]
    /\ stamp = 0
    /\ prev = NoReturn
    /\ cur = NoReturn
    /\ edits = 0
    /\ calls = 0
    /\ loaded = NotLoaded
    /\ dumped = NotDumped
    /\ repo \in {[root |-> r] : r \in ProjectRoots}
    /\ doctor = NoDoctor
    /\ outcome = NoOutcome
    /\ runners = NoRunners

\* the init command, confirmed
RunInit ==
    \E keep \in BOOLEAN :
        LET r == init(repo.root, keep)
        IN  /\ calls < MaxCalls
            /\ calls' = calls + 1
            /\ repo' = [root |-> r.root]
            /\ outcome' = [t |-> "init", keep_examples |-> keep, exc |-> r.exc,
                           before |-> repo.root, removed |-> Len(r.removed)]
            /\ UNCHANGED <<disk, index, last, stamp, prev, cur, edits, loaded, dumped, doctor, runners>>

\* the workspace is used between two runs of init: one of the four directories
\* gets artifacts
UseWorkspace ==
    \E name \in {"data", "datasets", "models", "runs"} :
        /\ edits < MaxEdits
        /\ edits' = edits + 1
        /\ is_dir(Child(repo.root, name))
        /\ repo' = [root |-> With(repo.root, name, InUse)]
        /\ outcome' = NoOutcome
        /\ UNCHANGED <<disk, index, last, stamp, prev, cur, calls, loaded, dumped, doctor, runners>>

NextInit == RunInit \/ UseWorkspace

SpecInit == InitInit /\ [][NextInit]_vars

\* init has completed, without --keep-examples
Cleaned == outcome.t = "init" /\ ~outcome.keep_examples /\ outcome.exc = "none"

\* C25: after init completes without --keep-examples, each of data, datasets,
\* models and runs is a directory whose only entry is README.md, newly
\* written: nothing of what the directory held before is left.
C25_InitResetsDirectories ==
    Cleaned =>
        \A name \in {"data", "datasets", "models", "runs"} :
            LET n == Child(repo.root, name)
            IN  /\ is_dir(n)
                /\ DOMAIN n.e = {"README.md"}
                /\ n.e["README.md"] = File(Text(ReadmeContent(name)))

\* init completed on a root where data was in use, with a README.md of its
\* own, and datasets was absent
C25_Witness ==
    /\ Cleaned
    /\ Child(outcome.before, "data") = InUse
    /\ ~exists(Child(outcome.before, "datasets"))
    /\ is_dir(Child(repo.root, "data"))

(***************************************************************************)
(* ExperimentRunner (tools/run.py).  Each invocation of the run command    *)
(* constructs a runner and calls run_experiment; runners[i] is invocation  *)
(* i at its step, the workspace is the tree of repo.root, and stamp is the *)
(* day datetime.now() gives.                                               *)
(***************************************************************************)
MaxRunners == 2

\* datetime.now().strftime("%Y-%m-%d")
DayText(day) == isoformat(PyDate(2024, 1, day + 1))
\* f"{counter:03d}"
Pad3(n) == IF n < 10 THEN "00" \o NatText(n) ELSE IF n < 100 THEN "0" \o NatText(n) ELSE NatText(n)
RunPath(id) == <<"runs", id>>

\* the loop of _generate_run_id: the first counter whose directory does not exist
RECURSIVE FreeCandidate(_, _, _)
FreeCandidate(root, day, counter) ==
    LET candidate == "run-" \o DayText(day) \o "-" \o Pad3(counter)
    IN  IF ~exists(Resolve(root, RunPath(candidate))) THEN candidate
        ELSE FreeCandidate(root, day, counter + 1)

_generate_run_id(root, custom_id, day) ==
    IF Truthy(custom_id) THEN custom_id.s ELSE FreeCandidate(root, day, 1)

\* _validate_config: model and dataset are required
_validate_config(config) ==
    IF Contains(config, "model").val /\ Contains(config, "dataset").val THEN "none"
    ELSE "ValueError"

\* mkdir(parents=True, exist_ok=True) of runs/<run_id>, then of artifacts in it
_create_run_directory(root, id) ==
    LET runs == IF exists(Child(root, "runs")) THEN Child(root, "runs") ELSE EmptyDir
        dir == IF exists(Child(runs, id)) THEN Child(runs, id) ELSE EmptyDir
    IN  IF ~is_dir(runs) \/ ~is_dir(dir) \/ is_file(Child(dir, "artifacts"))
        THEN [root |-> root, exc |-> "FileExistsError"]
        ELSE [root |-> With(root, "runs",
                            With(runs, id,
                                 IF exists(Child(dir, "artifacts")) THEN dir
                                 ELSE With(dir, "artifacts", EmptyDir))),
              exc |-> "none"]

\* a file of the run directory written anew
WriteRunFile(root, id, name, content) ==
    With(root, "runs",
         With(Child(root, "runs"), id, With(Resolve(root, RunPath(id)), name, File(content))))
\* _log_message: a line appended to log.txt
LogLine(root, id, message) ==
    WriteRunFile(root, id, "log.txt",
                 Text(TextOf(Resolve(root, <<"runs", id, "log.txt">>)) \o message \o "\n"))
\* self.config as written: the configuration with run_id and status
RunConfig(config, id, status) ==
    PyDict(Put(Put(Put(config.m, "run_id", PyStr(id)), "seed", PyInt(42)),
               "status", PyStr(status)))
\* _write_config, _write_system_info, _write_metrics and the first log lines
WriteInitialFiles(root, id, config) ==
    LET r1 == WriteRunFile(root, id, "config.yaml", Doc(RunConfig(config, id, "started")))
        r2 == WriteRunFile(r1, id, "system.json", Doc(EmptyDict))
        r3 == WriteRunFile(r2, id, "metrics.json",
                           Doc(PyDict(("summary" :> EmptyDict) @@ ("history" :> PyList(<< >>)))))
    IN  LogLine(r3, id, "Starting experiment " \o id)
\* the final _write_metrics, _write_config and log line
WriteFinalFiles(root, id, config) ==
    LET r1 == WriteRunFile(root, id, "metrics.json",
                           Doc(PyDict(("summary" :> MetricsDoc) @@ ("history" :> PyList(<< >>)))))
        r2 == WriteRunFile(r1, id, "config.yaml", Doc(RunConfig(config, id, "completed")))
    IN  LogLine(r2, id, "Experiment completed")

\* what the run command is called with
RunConfigs ==
    {PyDict(("model" :> PyStr("resnet")) @@ ("dataset" :> PyStr("a/v1"))),
     PyDict(("model" :> PyStr("vgg")) @@ ("dataset" :> PyStr("b/v1"))),
     PyDict("model" :> PyStr("resnet"))}
CustomIds == {PyNone, EmptyStr, PyStr("custom-run-123")}
\* the workspaces: without runs/, and with a run of the first day in it
RunWorkspaces ==
    {EmptyDir,
     Dir("runs" :> Dir("run-2024-01-01-001" :> Dir("config.yaml" :> File(Doc(CfgFull)))))}

Runners == 1..MaxRunners
NotStarted ==
    [pc |-> "idle", config |-> EmptyDict, custom_id |-> PyNone, run_id |-> "",
     existed |-> FALSE, exc |-> "none"]

InitRun ==
    /\ disk = [datasets |-> Absent, runs |-> Absent, models |-> Absent]
    /\ index = NewIndex(0)
    /\ last = [op |-> "__init__", exc |-> "none"]
    /\ stamp = 0
    /\ prev = NoReturn
    /\ cur = NoReturn
    /\ edits = 0
    /\ calls = 0
    /\ loaded = NotLoaded
    /\ dumped = NotDumped
    /\ repo \in {[root |-> r] : r \in RunWorkspaces}
    /\ doctor = NoDoctor
    /\ outcome = NoOutcome
    /\ runners = [i \in Runners |-> NotStarted]

\* run_experiment is entered: self.config.update(...); self._validate_config()
RunExperiment(i) ==
    \E config \in RunConfigs, custom_id \in CustomIds :
        /\ runners[i].pc = "idle"
        /\ runners' = [runners EXCEPT ![i] =
                          [@ EXCEPT !.config = config, !.custom_id = custom_id,
                                    !.exc = _validate_config(config),
                                    !.pc = IF _validate_config(config) = "none"
                                           THEN "validated" ELSE "raised"]]
        /\ UNCHANGED <<disk, index, last, stamp, prev, cur, edits, calls, loaded, dumped, repo,
                       doctor, outcome>>

\* self.run_id = self._generate_run_id(experiment_config.get("run_id"))
GenerateRunId(i) ==
    LET id == _generate_run_id(repo.root, runners[i].custom_id, stamp)
    IN  /\ runners[i].pc = "validated"
        /\ runners' = [runners EXCEPT ![i] =
                          [@ EXCEPT !.run_id = id, !.pc = "named",
                                    !.existed = exists(Resolve(repo.root, RunPath(id)))]]
        /\ UNCHANGED <<disk, index, last, stamp, prev, cur, edits, calls, loaded, dumped, repo,
                       doctor, outcome>>

\* self._create_run_directory()
CreateRunDirectory(i) ==
    LET r == _create_run_directory(repo.root, runners[i].run_id)
    IN  /\ runners[i].pc = "named"
        /\ repo' = [root |-> r.root]
        /\ runners' = [runners EXCEPT ![i] =
                          [@ EXCEPT !.exc = r.exc,
                                    !.pc = IF r.exc = "none" THEN "created" ELSE "raised"]]
        /\ UNCHANGED <<disk, index, last, stamp, prev, cur, edits, calls, loaded, dumped,
                       doctor, outcome>>

\* the initial files and the first log line
StartRun(i) ==
    /\ runners[i].pc = "created"
    /\ repo' = [root |-> WriteInitialFiles(repo.root, runners[i].run_id, runners[i].config)]
    /\ runners' = [runners EXCEPT ![i] = [@ EXCEPT !.pc = "running"]]
    /\ UNCHANGED <<disk, index, last, stamp, prev, cur, edits, calls, loaded, dumped,
                   doctor, outcome>>

\* the experiment ends: final metrics, config and log line; run_experiment returns
FinishRun(i) ==
    /\ runners[i].pc = "running"
    /\ repo' = [root |-> WriteFinalFiles(repo.root, runners[i].run_id, runners[i].config)]
    /\ runners' = [runners EXCEPT ![i] = [@ EXCEPT !.pc = "returned"]]
    /\ UNCHANGED <<disk, index, last, stamp, prev, cur, edits, calls, loaded, dumped,
                   doctor, outcome>>

\* midnight passes
NextDay ==
    /\ stamp < MaxStamp
    /\ stamp' = stamp + 1
    /\ UNCHANGED <<disk, index, last, prev, cur, edits, calls, loaded, dumped, repo,
                   doctor, outcome, runners>>

NextRun ==
    \/ \E i \in Runners : RunExperiment(i)
    \/ \E i \in Runners : GenerateRunId(i)
    \/ \E i \in Runners : CreateRunDirectory(i)
    \/ \E i \in Runners : StartRun(i)
    \/ \E i \in Runners : FinishRun(i)
    \/ NextDay

SpecRun == InitRun /\ [][NextRun]_vars

\* invocation i has its run id
Named(i) == runners[i].pc \in {"named", "created", "running", "returned"}
\* invocation i has written into its run directory
Wrote(i) == runners[i].pc \in {"running", "returned"}

\* C30: every invocation of run_experiment gets a run id whose run directory
\* did not exist when the id was chosen, and no two invocations write their
\* config, metrics and log into the same run directory.
C30_RunDirectoriesDistinct ==
    /\ \A i \in Runners : Named(i) => ~runners[i].existed
    /\ \A i, j \in Runners :
          (i # j /\ Wrote(i) /\ Wrote(j)) => runners[i].run_id # runners[j].run_id

====
